---- MODULE Spec2Model ----
(***************************************************************************)
(* Model of the crawl_enrich pipeline: the per-company enrichment pass     *)
(* (main.py process_company with the PerplexityEnricher heuristics), the   *)
(* sliding-window rate limiter of the source clients, the retry loops of   *)
(* the three source clients, the field extractors and the reconciliation   *)
(* of FirmographicsAnalyzer, and the resumable enrichment loop of main.py  *)
(* with its progress file and output snapshot.                             *)
(*                                                                         *)
(* Data encoding.  A Python dict is a TLA+ function over the keys it has   *)
(* (a record); the empty dict is the empty function.  Numbers are integers *)
(* and strings are strings; a JSON null of a string-typed field is written *)
(* "" (both are falsy in every test the code makes).                       *)
(***************************************************************************)
EXTENDS Integers, Sequences, FiniteSets, TLC

VARIABLES
    \* ---- one company record under repeated enrichment passes ----------
    company,        \* the record process_company mutates: [entityName, data]
    before,         \* the record as it was before the last pass
    lastResp,       \* what the LLM source returned in the last pass
    lastRaised,     \* whether the last pass raised out of process_company
    passKind,       \* "none" | "fresh" | "repeat" (same LLM answers again)
    args,           \* the validate flags of the command line
    \* ---- one rate limiter ---------------------------------------------
    rate_limit_config, \* the RateLimitConfig of the client
    request_times,  \* self.request_times
    clock,          \* time.time()
    releases,       \* the times at which _wait_for_rate_limit returned
    \* ---- one run of main() --------------------------------------------
    pc,             \* position in main()
    run,            \* "first": a run on a clean output directory; "rerun"
    input_companies, \* the entity names of the rows of input/companies.csv
    resume,         \* args.resume
    progress_file,  \* output/enrichment_progress.json on disk
    firmographics_output, \* output/firmographics.json on disk
    archived,       \* what archive_existing_outputs moved to output/archive
    processed_companies,  \* the in-memory ledger
    firmographics_data,   \* the in-memory snapshot
    idx,            \* index of the company the loop is at (1-based)
    outcome,        \* per index: "pending" | "skipped" | "done" | "failed" |
                    \* "failed_write"
    llm_called,     \* indices for which process_company was called
    io_errors,      \* how many file writes have failed so far
    \* ---- one fetch of one source client --------------------------------
    client,         \* "diffbot" | "linkedin" | "perplexity"
    field,          \* the per-field fetch of the LLM client, "" otherwise
    attempt,        \* the loop variable of the retry loop (0-based)
    upstream,       \* what the upstream answered to each request so far
    sleeps,         \* the time.sleep() calls of the retry code, in order
    fetch_state,    \* "running" | "returned" | "returned_none" | "raised"
    fetch_result,   \* the value returned
    \* ---- the source stages and the reconciliation of main() ------------
    rec_pc,         \* "linkedin" | "diffbot" | "extract" | "prompt" | "written"
    li_init,        \* "untried" | "ok" | "failed": LinkedInCompanyAnalyzer()
    linkedin_data,  \* li_results, as written to raw_li_company_data.json
    diffbot_data,   \* diffbot_results, as written to raw_diffbot_company_data.json
    firmographics,  \* the list extract_firmographics writes
    human_validation,   \* args.human_validation
    pending_prompt,     \* the get_user_choice call waiting for input(), {} if none
    answered_prompts,   \* the get_user_choice calls that returned, with the choice
    bad_inputs          \* how many inputs other than 1 and 2 were entered

enrichVars  == <<company, before, lastResp, lastRaised, passKind, args>>
limiterVars == <<rate_limit_config, request_times, clock, releases>>
runVars     == <<pc, run, input_companies, resume, progress_file, firmographics_output, archived,
                 processed_companies, firmographics_data, idx, outcome,
                 llm_called, io_errors>>
fetchVars   == <<client, field, attempt, upstream, sleeps, fetch_state, fetch_result>>
reconcileVars == <<rec_pc, li_init, linkedin_data, diffbot_data, firmographics,
                   human_validation, pending_prompt, answered_prompts, bad_inputs>>
vars        == <<enrichVars, limiterVars, runVars, fetchVars, reconcileVars>>

---------------------------------------------------------------------------
\* Python helpers

EmptyDict == << >>

\* d.get(k, default)
Get(d, k, default) == IF k \in DOMAIN d THEN d[k] ELSE default

\* bool(d) of a dict
DictTruthy(d) == DOMAIN d # {}

\* d with d[k] = v assigned
Put(d, k, v) == [x \in DOMAIN d \cup {k} |-> IF x = k THEN v ELSE d[x]]

Abs(n) == IF n < 0 THEN -n ELSE n

NumericKeys == {"amount", "total", "it_staff"}

\* bool(v) of the value stored under key k (numbers under the numeric keys,
\* strings elsewhere)
Truthy(k, v) == IF k \in NumericKeys THEN v # 0 ELSE v # ""

\* sum(1 for v in d.values() if v)
PopulatedFields(d) == Cardinality({k \in DOMAIN d : Truthy(k, d[k])})

\* str.lower() on the strings the model uses
Lower(s) ==
    CASE s = "US" -> "us"
      [] s = "NY" -> "ny"
      [] s = "Engineering" -> "engineering"
      [] s = "Sales" -> "sales"
      [] OTHER -> s

---------------------------------------------------------------------------
\* PerplexityEnricher: the update-worthiness heuristics

\* The relative thresholds 0.15 and 0.2, in percent
EmployeeThresholdPct == 15
RevenueThresholdPct == 20

\* abs(current - new) / current > pct/100, for integers
RatioExceeds(current, new, pct) ==
    IF current > 0 THEN 100 * Abs(current - new) > pct * current
    ELSE FALSE

\* The employee heuristic taking every fetched non-zero total
_should_update_employees_any_change(current, new) ==
    LET current_total == Get(current, "total", 0)
        new_total == Get(new, "total", 0)
    IN  IF current_total = 0 THEN TRUE ELSE new_total > 0

_should_update_employees(current, new) ==
    LET current_total == Get(current, "total", 0)
        new_total == Get(new, "total", 0)
    IN  IF current_total = 0 THEN TRUE
        ELSE IF new_total > 0
             THEN RatioExceeds(current_total, new_total, EmployeeThresholdPct)
             ELSE FALSE

key_fields == {"country", "city", "state"}

\* The location heuristic without its first rule (a more complete new value
\* always wins)
_should_update_location_by_match(current, new) ==
    LET current_fields == PopulatedFields(current)
        new_fields == PopulatedFields(new)
        matching_fields ==
            Cardinality({f \in key_fields :
                /\ Get(current, f, "") # ""
                /\ Get(new, f, "") # ""
                /\ Lower(current[f]) = Lower(new[f])})
    IN  matching_fields < 2 /\ new_fields >= current_fields

\* The location heuristic without the completeness test of its last rule
_should_update_location_ignoring_completeness(current, new) ==
    LET current_fields == PopulatedFields(current)
        new_fields == PopulatedFields(new)
        matching_fields ==
            Cardinality({f \in key_fields :
                /\ Get(current, f, "") # ""
                /\ Get(new, f, "") # ""
                /\ Lower(current[f]) = Lower(new[f])})
    IN  IF new_fields > current_fields THEN TRUE
        ELSE matching_fields < 2

_should_update_location(current, new) ==
    LET current_fields == PopulatedFields(current)
        new_fields == PopulatedFields(new)
        matching_fields ==
            Cardinality({f \in key_fields :
                /\ Get(current, f, "") # ""
                /\ Get(new, f, "") # ""
                /\ Lower(current[f]) = Lower(new[f])})
    IN  IF new_fields > current_fields THEN TRUE
        ELSE matching_fields < 2 /\ new_fields >= current_fields

_should_update_revenue(current, new) ==
    LET current_amount == Get(current, "amount", 0)
        new_amount == Get(new, "amount", 0)
    IN  IF current_amount = 0 /\ new_amount # 0 THEN TRUE
        ELSE IF current_amount # 0 /\ new_amount # 0
                /\ RatioExceeds(current_amount, new_amount, RevenueThresholdPct)
             THEN PopulatedFields(new) >= PopulatedFields(current)
             ELSE FALSE

---------------------------------------------------------------------------
\* main.py process_company.  A fetch of the LLM source (_get_employee_data,
\* _get_location_data, _get_revenue_data, _get_additional_news) is an input
\* [raised, value]: it either raises out of the fetch (the request is made
\* outside the fetch's try block) or returns a value, {} or [] when it has
\* none.  Each step returns [data, raised]; a raise leaves data as mutated so
\* far, because company_data is the dict inside firmographics_data.

Returned(v) == [raised |-> FALSE, value |-> v]
Raised == [raised |-> TRUE, value |-> EmptyDict]

Ok(data) == [data |-> data, raised |-> FALSE]
Exc(data) == [data |-> data, raised |-> TRUE]

\* The employee step with nothing stored when the record has no total
EnrichEmployeesKeepsZero(data, fetch) ==
    IF fetch.raised THEN Exc(data)
    ELSE IF Get(Get(data, "employees", EmptyDict), "total", 0) # 0
    THEN IF DictTruthy(fetch.value)
            /\ _should_update_employees(data.employees, fetch.value)
         THEN IF "total" \in DOMAIN fetch.value
              THEN Ok([data EXCEPT !.employees =
                          Put(data.employees, "total", fetch.value.total)])
              ELSE Exc(data)
         ELSE Ok(data)
    ELSE Ok(data)

\* lines 44-52
EnrichEmployees(data, fetch) ==
    IF fetch.raised THEN Exc(data)
    ELSE IF Get(Get(data, "employees", EmptyDict), "total", 0) # 0
    THEN IF DictTruthy(fetch.value)
            /\ _should_update_employees(data.employees, fetch.value)
         THEN IF "total" \in DOMAIN fetch.value
              THEN Ok([data EXCEPT !.employees =
                          Put(data.employees, "total", fetch.value.total)])
              ELSE Exc(data)
         ELSE Ok(data)
    ELSE IF DictTruthy(fetch.value)
         THEN IF "total" \in DOMAIN fetch.value
              THEN Ok([data EXCEPT !.employees = [total |-> fetch.value.total]])
              ELSE Exc(data)
         ELSE Ok(data)

\* The location step storing the fetched address and clearing the record's
\* industry list with it
EnrichLocationResetsIndustries(data, fetch) ==
    IF fetch.raised THEN Exc(data)
    ELSE IF DictTruthy(data.hq_address)
    THEN IF DictTruthy(fetch.value)
            /\ _should_update_location(data.hq_address, fetch.value)
         THEN Ok([data EXCEPT !.hq_address = fetch.value,
                              !.industry_verticals = << >>])
         ELSE Ok(data)
    ELSE Ok([data EXCEPT !.hq_address = fetch.value])

\* lines 55-61
EnrichLocation(data, fetch) ==
    IF fetch.raised THEN Exc(data)
    ELSE IF DictTruthy(data.hq_address)
    THEN IF DictTruthy(fetch.value)
            /\ _should_update_location(data.hq_address, fetch.value)
         THEN Ok([data EXCEPT !.hq_address = fetch.value])
         ELSE Ok(data)
    ELSE Ok([data EXCEPT !.hq_address = fetch.value])

\* The revenue step storing whatever was fetched
EnrichRevenueStoresAnyFetch(data, fetch) ==
    IF fetch.raised THEN Exc(data)
    ELSE Ok([data EXCEPT !.revenue = fetch.value])

\* lines 64-70
EnrichRevenue(data, fetch) ==
    IF fetch.raised THEN Exc(data)
    ELSE IF DictTruthy(data.revenue)
    THEN IF DictTruthy(fetch.value)
            /\ _should_update_revenue(data.revenue, fetch.value)
         THEN Ok([data EXCEPT !.revenue = fetch.value])
         ELSE Ok(data)
    ELSE Ok([data EXCEPT !.revenue = fetch.value])

\* f"{news.get('source', '')}-{news.get('date', '')}-{news.get('title', '')}"
news_identifier(news) ==
    Get(news, "source", "") \o "-" \o Get(news, "date", "")
        \o "-" \o Get(news, "title", "")

\* The loop over additional_news inserting each new entry at the front of
\* the list
RECURSIVE MergeNewsPrepend(_, _, _)
MergeNewsPrepend(news_updates, existing_news_identifiers, additional_news) ==
    IF additional_news = << >> THEN news_updates
    ELSE LET news_item == Head(additional_news)
             id == news_identifier(news_item)
         IN  IF id \notin existing_news_identifiers
             THEN MergeNewsPrepend(<<news_item>> \o news_updates,
                                   existing_news_identifiers \cup {id},
                                   Tail(additional_news))
             ELSE MergeNewsPrepend(news_updates, existing_news_identifiers,
                                   Tail(additional_news))

\* lines 80-84: the loop over additional_news
RECURSIVE MergeNews(_, _, _)
MergeNews(news_updates, existing_news_identifiers, additional_news) ==
    IF additional_news = << >> THEN news_updates
    ELSE LET news_item == Head(additional_news)
             id == news_identifier(news_item)
         IN  IF id \notin existing_news_identifiers
             THEN MergeNews(Append(news_updates, news_item),
                            existing_news_identifiers \cup {id},
                            Tail(additional_news))
             ELSE MergeNews(news_updates, existing_news_identifiers,
                            Tail(additional_news))

\* The news step with the set of known identifiers started empty instead of
\* from the record's list
EnrichNewsForgetful(data, fetch) ==
    IF fetch.raised THEN Exc(data)
    ELSE IF fetch.value # << >>
    THEN Ok([data EXCEPT !.news_updates =
                MergeNews(data.news_updates, {}, fetch.value)])
    ELSE Ok(data)

\* lines 73-84
EnrichNews(data, fetch) ==
    IF fetch.raised THEN Exc(data)
    ELSE IF fetch.value # << >>
    THEN Ok([data EXCEPT !.news_updates =
                MergeNews(data.news_updates,
                          {news_identifier(data.news_updates[i]) :
                               i \in DOMAIN data.news_updates},
                          fetch.value)])
    ELSE Ok(data)

\* process_company with the location step not looking at its flag
process_company_always_location(c, resp, a) ==
    LET s1 == IF a.validate_employees
              THEN EnrichEmployees(c.data, resp.employees) ELSE Ok(c.data)
        s2 == IF s1.raised THEN s1 ELSE EnrichLocation(s1.data, resp.location)
        s3 == IF s2.raised THEN s2
              ELSE IF a.validate_revenue
              THEN EnrichRevenue(s2.data, resp.revenue) ELSE s2
        s4 == IF s3.raised THEN s3 ELSE EnrichNews(s3.data, resp.news)
    IN  [company |-> [c EXCEPT !.data = s4.data], raised |-> s4.raised,
         requested |->
            {f \in {"employees"} : a.validate_employees}
            \cup {f \in {"location"} : ~s1.raised}
            \cup {f \in {"revenue"} : ~s2.raised /\ a.validate_revenue}
            \cup {f \in {"news"} : ~s3.raised}]

\* lines 38-86; resp holds the four fetches, a the validate flags.
\* Returns [company, raised, requested]: requested are the fields the LLM
\* source was asked for (each step's fetch is made whenever the step is
\* reached with its flag set, the news fetch whenever it is reached).
process_company(c, resp, a) ==
    LET s1 == IF a.validate_employees
              THEN EnrichEmployees(c.data, resp.employees) ELSE Ok(c.data)
        s2 == IF s1.raised THEN s1
              ELSE IF a.validate_location
              THEN EnrichLocation(s1.data, resp.location) ELSE s1
        s3 == IF s2.raised THEN s2
              ELSE IF a.validate_revenue
              THEN EnrichRevenue(s2.data, resp.revenue) ELSE s2
        s4 == IF s3.raised THEN s3 ELSE EnrichNews(s3.data, resp.news)
    IN  [company |-> [c EXCEPT !.data = s4.data], raised |-> s4.raised,
         requested |->
            {f \in {"employees"} : a.validate_employees}
            \cup {f \in {"location"} : ~s1.raised /\ a.validate_location}
            \cup {f \in {"revenue"} : ~s2.raised /\ a.validate_revenue}
            \cup {f \in {"news"} : ~s3.raised}]

---------------------------------------------------------------------------
\* FirmographicsAnalyzer: the field extractors.  li_data is a network-profile
\* document and diffbot_company a knowledge-graph payload; a None argument
\* is written {} (the code tests both with `if x`).

Min(a, b) == IF a < b THEN a ELSE b

\* s[:n]
Slice(s, n) == SubSeq(s, 1, Min(n, Len(s)))

\* diffbot_company and 'data' in diffbot_company
HasData(diffbot_company) ==
    DictTruthy(diffbot_company) /\ "data" \in DOMAIN diffbot_company

\* diffbot_company['data'][0].get('entity', {}) where the code reads the
\* first result only ('data' present and non-empty), {} otherwise
first_entity(diffbot_company) ==
    IF HasData(diffbot_company) /\ diffbot_company.data # << >>
    THEN Get(diffbot_company.data[1], "entity", EmptyDict)
    ELSE EmptyDict

\* the first classification carrying 'nbEmployees', as [found, value]
RECURSIVE FirstNaicsCount(_)
FirstNaicsCount(naics_data) ==
    IF naics_data = << >> THEN [found |-> FALSE, value |-> 0]
    ELSE IF "nbEmployees" \in DOMAIN Head(naics_data)
         THEN [found |-> TRUE, value |-> Head(naics_data).nbEmployees]
         ELSE FirstNaicsCount(Tail(naics_data))

\* a or b or c or 0, for integers
FirstNonZero(a, b, c) == IF a # 0 THEN a ELSE IF b # 0 THEN b ELSE c

\* The extraction with the knowledge-graph value taken before the
\* network-profile count
_extract_total_employees_graph_first(li_data, diffbot_company) ==
    LET li_count == IF DictTruthy(li_data)
                    THEN Get(Get(li_data, "structured_data", EmptyDict),
                             "total_employees", 0)
                    ELSE 0
        entity == first_entity(diffbot_company)
        naics == FirstNaicsCount(Get(entity, "naicsClassification", << >>))
        graph_count ==
            IF HasData(diffbot_company) /\ diffbot_company.data # << >>
            THEN IF naics.found THEN naics.value
                 ELSE FirstNonZero(Get(entity, "nbEmployees", 0),
                                   Get(Get(entity, "employeesRange", EmptyDict), "max", 0),
                                   Get(entity, "nbEmployeesMax", 0))
            ELSE 0
    IN  IF graph_count # 0 THEN graph_count ELSE li_count

_extract_total_employees(li_data, diffbot_company) ==
    LET li_count == IF DictTruthy(li_data)
                    THEN Get(Get(li_data, "structured_data", EmptyDict),
                             "total_employees", 0)
                    ELSE 0
        entity == first_entity(diffbot_company)
        naics == FirstNaicsCount(Get(entity, "naicsClassification", << >>))
    IN  IF li_count # 0 THEN li_count
        ELSE IF HasData(diffbot_company) /\ diffbot_company.data # << >>
        THEN IF naics.found THEN naics.value
             ELSE FirstNonZero(Get(entity, "nbEmployees", 0),
                               Get(Get(entity, "employeesRange", EmptyDict), "max", 0),
                               Get(entity, "nbEmployeesMax", 0))
        ELSE 0

\* any(pattern.replace('*', '') in category_name for pattern in
\* it_related_patterns), on the lower-cased category names of the model
\* ("engineering" holds 'eng', "sales" holds none of the patterns)
MatchesItPattern(category_name) == category_name \in {"engineering", "it"}

RECURSIVE SumItStaff(_)
SumItStaff(employee_categories) ==
    IF employee_categories = << >> THEN 0
    ELSE LET category == Head(employee_categories)
         IN  (IF MatchesItPattern(Lower(Get(category, "category", "")))
              THEN Get(category, "nbEmployees", 0) ELSE 0)
             + SumItStaff(Tail(employee_categories))

_extract_it_staff(li_data, diffbot_company) ==
    SumItStaff(Get(first_entity(diffbot_company), "employeeCategories", << >>))

\* the first result that has an entity with the key, as [found, value]
RECURSIVE FirstEntityWith(_, _)
FirstEntityWith(results, key) ==
    IF results = << >> THEN [found |-> FALSE, value |-> EmptyDict]
    ELSE IF "entity" \in DOMAIN Head(results)
            /\ key \in DOMAIN Head(results).entity
         THEN [found |-> TRUE, value |-> Head(results).entity[key]]
         ELSE FirstEntityWith(Tail(results), key)

_extract_hq_location(li_data, diffbot_company) ==
    LET first == IF HasData(diffbot_company)
                 THEN FirstEntityWith(diffbot_company.data, "location")
                 ELSE [found |-> FALSE, value |-> EmptyDict]
        loc == first.value
    IN  IF first.found
        THEN [country |-> Get(Get(loc, "country", EmptyDict), "name", ""),
              city |-> Get(Get(loc, "city", EmptyDict), "name", ""),
              state |-> Get(Get(loc, "region", EmptyDict), "name", ""),
              postal_code |-> Get(loc, "postalCode", ""),
              full_address |-> Get(loc, "address", "")]
        ELSE EmptyDict

\* without a default currency (FirmographicsAnalyzer(default_currency=None))
_extract_revenue(li_data, diffbot_company) ==
    LET first == IF HasData(diffbot_company)
                 THEN FirstEntityWith(diffbot_company.data, "revenue")
                 ELSE [found |-> FALSE, value |-> EmptyDict]
        rev == first.value
    IN  IF first.found
        THEN [amount |-> Get(rev, "value", 0),
              currency |-> Get(rev, "currency", ""),
              range |-> Get(rev, "range", "")]
        ELSE EmptyDict

\* The order sorted() gives the names of the model
Rank(s) ==
    CASE s = "" -> 0
      [] s = "Python" -> 1
      [] s = "Retail" -> 2
      [] s = "Software" -> 3
      [] OTHER -> 4

\* sorted(list(S))
RECURSIVE Sorted(_)
Sorted(S) ==
    IF S = {} THEN << >>
    ELSE LET least == CHOOSE x \in S : \A y \in S : Rank(x) <= Rank(y)
         IN  <<least>> \o Sorted(S \ {least})

ElementsOf(s) == {s[i] : i \in DOMAIN s}

\* the values under key of every result that has an entity with the key
EntityLists(results, key) ==
    {results[i].entity[key] :
        i \in {j \in DOMAIN results :
                 "entity" \in DOMAIN results[j] /\ key \in DOMAIN results[j].entity}}

_extract_industries(li_data, diffbot_company) ==
    IF HasData(diffbot_company)
    THEN Sorted(UNION {ElementsOf(l) : l \in EntityLists(diffbot_company.data, "industries")})
    ELSE << >>

_extract_technologies(diffbot_company) ==
    IF HasData(diffbot_company)
    THEN Sorted(UNION {{Get(tech.technology, "name", "") :
                           tech \in {t \in ElementsOf(l) : "technology" \in DOMAIN t}} :
                       l \in EntityLists(diffbot_company.data, "technographics")})
    ELSE << >>

\* result['entity']['competitors'][:10]
SimilarCompaniesSlice == 10

SimilarEntry(comp) ==
    [name |-> Get(comp, "name", ""),
     url |-> Get(comp, "homepage", ""),
     description |-> Get(comp, "summary", "")]

RECURSIVE SimilarOfResults(_)
SimilarOfResults(results) ==
    IF results = << >> THEN << >>
    ELSE LET result == Head(results)
             here == IF "entity" \in DOMAIN result
                        /\ "competitors" \in DOMAIN result.entity
                     THEN LET top == Slice(result.entity.competitors,
                                           SimilarCompaniesSlice)
                          IN  [i \in DOMAIN top |-> SimilarEntry(top[i])]
                     ELSE << >>
         IN  here \o SimilarOfResults(Tail(results))

_extract_similar_companies(diffbot_company) ==
    IF HasData(diffbot_company)
    THEN SimilarOfResults(diffbot_company.data)
    ELSE << >>

---------------------------------------------------------------------------
\* FirmographicsAnalyzer: news extraction from the knowledge-graph payload

\* Which of the relevance keywords a text of the model contains, lower-cased
\* (keyword in text.lower())
KeywordsIn(text) ==
    CASE text = "Hiring 100" -> {"hiring"}
      [] text = "merger, hiring" -> {"merger", "hiring"}
      [] text = "security" -> {"security"}
      [] OTHER -> {}

\* keywords found in f"{title} {summary}".lower()
ArticleKeywords(article) ==
    KeywordsIn(Get(article, "title", "")) \cup KeywordsIn(Get(article, "summary", ""))

keywords == {"merger", "acquisition", "hiring", "security", "digital transformation"}

_is_relevant_article(article) == ArticleKeywords(article) \cap keywords # {}

_categorize_article(article) ==
    LET text == ArticleKeywords(article)
    IN  IF "merger" \in text \/ "acquisition" \in text THEN "M&A"
        ELSE IF "hiring" \in text THEN "Hiring"
        ELSE IF "security" \in text THEN "Security"
        ELSE IF "digital transformation" \in text THEN "Digital Transformation"
        ELSE "Other"

\* the entry _extract_news_updates builds for one article
NewsEntry(article) ==
    [source |-> "diffbot",
     date |-> Get(article, "date", ""),
     title |-> Get(article, "title", ""),
     url |-> Get(article, "url", ""),
     type |-> _categorize_article(article)]

RECURSIVE ArticlesToUpdates(_)
ArticlesToUpdates(articles) ==
    IF articles = << >> THEN << >>
    ELSE LET rest == ArticlesToUpdates(Tail(articles))
         IN  IF _is_relevant_article(Head(articles))
             THEN <<NewsEntry(Head(articles))>> \o rest
             ELSE rest

RECURSIVE ResultsToUpdates(_)
ResultsToUpdates(results) ==
    IF results = << >> THEN << >>
    ELSE LET result == Head(results)
             here == IF "entity" \in DOMAIN result
                        /\ "articles" \in DOMAIN result.entity
                     THEN ArticlesToUpdates(result.entity.articles)
                     ELSE << >>
         IN  here \o ResultsToUpdates(Tail(results))

_extract_news_updates(li_data, diffbot_company) ==
    IF DictTruthy(diffbot_company) /\ "data" \in DOMAIN diffbot_company
    THEN ResultsToUpdates(diffbot_company.data)
    ELSE << >>

---------------------------------------------------------------------------
\* FirmographicsAnalyzer: reconciliation of the two sources into records.
\* companies_df is the list of rows of input/companies.csv.

\* s.lower().strip().replace('-', '').replace(' ', '').replace('_', ''), on
\* the strings of the model
normalize_string(s) ==
    CASE s = "A" -> "a"
      [] s = "B" -> "b"
      [] s = "A B" -> "ab"
      [] OTHER -> s

\* uri.lower().strip().replace('https://www.', '').replace('www.', '')
normalize_linkedin_uri(uri) ==
    CASE uri = "https://www.linkedin.com/company/a" -> "linkedin.com/company/a"
      [] uri = "https://www.linkedin.com/company/b" -> "linkedin.com/company/b"
      [] OTHER -> uri

\* needle in hay, on the normalized strings of the model
IsSubstring(needle, hay) ==
    \/ needle = hay
    \/ needle = ""
    \/ <<needle, hay>> \in {<<"a", "ab">>, <<"b", "ab">>}

\* the rows of companies_df whose company_name is the name
MatchingRows(companies_df, company_name) ==
    SelectSeq(companies_df, LAMBDA row : row.company_name = company_name)

_extract_base_info(li_data, companies_df) ==
    LET company_name == Get(Get(li_data, "structured_data", EmptyDict), "name", "")
        rows == MatchingRows(companies_df, company_name)
    IN  [company_name |-> company_name,
         company_url |-> IF rows # << >> THEN rows[1].company_url
                         ELSE Get(li_data, "company_url", ""),
         linkedin_uri |-> IF rows # << >> THEN rows[1].li_company_uri
                          ELSE Get(Get(Get(li_data, "raw_data", EmptyDict),
                                       "metadata", EmptyDict), "company_uri", "")]

\* whether one payload of the knowledge-graph results matches the identifiers
MatchesDiffbot(candidate, search_name, search_linkedin, search_url) ==
    /\ "data" \in DOMAIN candidate
    /\ candidate.data # << >>
    /\ LET entity == Get(candidate.data[1], "entity", EmptyDict)
           allNames == Get(entity, "allNames", << >>)
           diffbot_linkedin == normalize_linkedin_uri(Get(entity, "linkedInUri", ""))
           diffbot_homepage == normalize_string(Get(entity, "homepageUri", ""))
       IN  \/ \E i \in DOMAIN allNames :
                 search_name # "" /\ IsSubstring(search_name, normalize_string(allNames[i]))
           \/ search_linkedin # "" /\ diffbot_linkedin # ""
                 /\ IsSubstring(search_linkedin, diffbot_linkedin)
           \/ search_url # "" /\ diffbot_homepage # ""
                 /\ IsSubstring(search_url, diffbot_homepage)

\* a matching that prefers the last matching payload
_find_matching_diffbot_data_last(company_url, company_name, linkedin_uri, diffbot_results) ==
    LET matches == SelectSeq(diffbot_results, LAMBDA candidate :
                       MatchesDiffbot(candidate, normalize_string(company_name),
                                      normalize_linkedin_uri(linkedin_uri),
                                      normalize_string(company_url)))
    IN  IF matches # << >> THEN matches[Len(matches)] ELSE EmptyDict

\* the first matching payload, {} for None
_find_matching_diffbot_data(company_url, company_name, linkedin_uri, diffbot_results) ==
    LET matches == SelectSeq(diffbot_results, LAMBDA candidate :
                       MatchesDiffbot(candidate, normalize_string(company_name),
                                      normalize_linkedin_uri(linkedin_uri),
                                      normalize_string(company_url)))
    IN  IF matches # << >> THEN matches[1] ELSE EmptyDict

_extract_from_diffbot_only(diffbot_company, linkedin_uri) ==
    LET entity == IF "data" \in DOMAIN diffbot_company /\ diffbot_company.data # << >>
                  THEN Get(diffbot_company.data[1], "entity", EmptyDict)
                  ELSE EmptyDict
        diffbot_linkedin_uri == Get(entity, "linkedInUri", "")
    IN  [entityName |-> Get(entity, "name", ""),
         data |-> [company_url |-> Get(Get(diffbot_company, "metadata", EmptyDict),
                                       "company_url", ""),
                   linkedin_uri |-> IF diffbot_linkedin_uri # ""
                                    THEN diffbot_linkedin_uri ELSE linkedin_uri,
                   employees |-> [total |-> _extract_total_employees(EmptyDict, diffbot_company),
                                  it_staff |-> _extract_it_staff(EmptyDict, diffbot_company)],
                   hq_address |-> _extract_hq_location(EmptyDict, diffbot_company),
                   revenue |-> _extract_revenue(EmptyDict, diffbot_company),
                   industry_verticals |-> _extract_industries(EmptyDict, diffbot_company),
                   similar_companies |-> _extract_similar_companies(diffbot_company),
                   technologies |-> _extract_technologies(diffbot_company),
                   news_updates |-> _extract_news_updates(EmptyDict, diffbot_company)]]

_extract_combined_data(li_company, diffbot_company, companies_df) ==
    LET base_info == _extract_base_info(li_company, companies_df)
        diffbot_linkedin_uri == Get(first_entity(diffbot_company), "linkedInUri", "")
    IN  [entityName |-> base_info.company_name,
         data |-> [company_url |-> base_info.company_url,
                   linkedin_uri |-> IF diffbot_linkedin_uri # ""
                                    THEN diffbot_linkedin_uri
                                    ELSE base_info.linkedin_uri,
                   employees |-> [total |-> _extract_total_employees(li_company, diffbot_company),
                                  it_staff |-> _extract_it_staff(li_company, diffbot_company)],
                   hq_address |-> _extract_hq_location(li_company, diffbot_company),
                   revenue |-> _extract_revenue(li_company, diffbot_company),
                   industry_verticals |-> _extract_industries(li_company, diffbot_company),
                   similar_companies |-> _extract_similar_companies(diffbot_company),
                   technologies |-> _extract_technologies(diffbot_company),
                   news_updates |-> _extract_news_updates(li_company, diffbot_company)]]

\* company_mappings.get(company_url): the li_company_uri of the last row
\* with that company_url, "" for None
company_mappings(companies_df, company_url) ==
    LET rows == SelectSeq(companies_df, LAMBDA row : row.company_url = company_url)
    IN  IF rows # << >> THEN rows[Len(rows)].li_company_uri ELSE ""

Max(a, b) == IF a > b THEN a ELSE b

\* any(loc1.get(field) != loc2.get(field) for field in key_fields); a
\* missing key (None) is written "None"
_locations_differ(loc1, loc2) ==
    \E f \in {"country", "city", "state"} : Get(loc1, f, "None") # Get(loc2, f, "None")

_revenues_differ(rev1, rev2) ==
    IF ~(Get(rev1, "amount", 0) # 0 /\ Get(rev2, "amount", 0) # 0) THEN FALSE
    ELSE 10 * Abs(rev1.amount - rev2.amount) > Max(rev1.amount, rev2.amount)

\* A step of _extract_combined_data_with_validation that does not prompt
NoPrompt(value, answers) ==
    [pending |-> FALSE, prompt |-> EmptyDict, value |-> value, rest |-> answers]

\* get_user_choice, given the accepted inputs ("1" or "2") the operator has
\* still to give in this run of extract_firmographics: with none left the
\* call waits at input(), otherwise it returns the chosen option
get_user_choice(source1_data, source2_data, data_type, name, answers) ==
    IF answers = << >>
    THEN [pending |-> TRUE,
          prompt |-> [data_type |-> data_type, company_name |-> name,
                      source1_data |-> source1_data, source2_data |-> source2_data],
          value |-> source1_data, rest |-> << >>]
    ELSE [pending |-> FALSE, prompt |-> EmptyDict,
          value |-> IF Head(answers) = "1" THEN source1_data ELSE source2_data,
          rest |-> Tail(answers)]

\* lines 114-125: employee data validation
ValidateEmployees(li_employees, diff_employees, name, answers) ==
    IF li_employees # 0 /\ diff_employees # 0
       /\ 10 * Abs(li_employees - diff_employees) > Max(li_employees, diff_employees)
    THEN get_user_choice([total |-> li_employees], [total |-> diff_employees],
                         "employee count", name, answers)
    ELSE NoPrompt([total |-> IF li_employees # 0 THEN li_employees
                             ELSE diff_employees], answers)

\* lines 132-137: location data validation
ValidateLocation(li_location, diff_location, name, answers) ==
    IF DictTruthy(li_location) /\ DictTruthy(diff_location)
       /\ _locations_differ(li_location, diff_location)
    THEN get_user_choice(li_location, diff_location, "location", name, answers)
    ELSE NoPrompt(IF DictTruthy(li_location) THEN li_location ELSE diff_location,
                  answers)

\* lines 140-146: revenue data validation
ValidateRevenue(li_revenue, diff_revenue, name, answers) ==
    IF DictTruthy(li_revenue) /\ DictTruthy(diff_revenue)
       /\ _revenues_differ(li_revenue, diff_revenue)
    THEN get_user_choice(li_revenue, diff_revenue, "revenue", name, answers)
    ELSE NoPrompt(IF DictTruthy(li_revenue) THEN li_revenue ELSE diff_revenue,
                  answers)

\* lines 148-164: the record returned, or the prompt the function waits at
ValidatedRecord(base_info, employees, location, revenue, rest_of_data) ==
    IF employees.pending \/ location.pending \/ revenue.pending
    THEN [pending |-> TRUE, record |-> EmptyDict, rest |-> << >>,
          prompt |-> IF employees.pending THEN employees.prompt
                     ELSE IF location.pending THEN location.prompt
                     ELSE revenue.prompt]
    ELSE [pending |-> FALSE, prompt |-> EmptyDict, rest |-> revenue.rest,
          record |->
            [entityName |-> base_info.company_name,
             data |-> [company_url |-> base_info.company_url,
                       linkedin_uri |-> base_info.linkedin_uri,
                       employees |-> [total |-> employees.value.total,
                                      it_staff |-> rest_of_data.it_staff],
                       hq_address |-> location.value,
                       revenue |-> revenue.value,
                       industry_verticals |-> rest_of_data.industry_verticals,
                       similar_companies |-> rest_of_data.similar_companies,
                       technologies |-> rest_of_data.technologies,
                       news_updates |-> rest_of_data.news_updates]]]

\* The three validations in the order of the code, each with the inputs the
\* one before left
ValidateFrom(base_info, li_company, diffbot_company, employees) ==
    LET location == ValidateLocation(_extract_hq_location(li_company, EmptyDict),
                                     _extract_hq_location(EmptyDict, diffbot_company),
                                     base_info.company_name, employees.rest)
    IN  ValidatedRecord(base_info, employees, location,
            ValidateRevenue(_extract_revenue(li_company, EmptyDict),
                            _extract_revenue(EmptyDict, diffbot_company),
                            base_info.company_name, location.rest),
            [it_staff |-> _extract_it_staff(li_company, diffbot_company),
             industry_verticals |-> _extract_industries(li_company, diffbot_company),
             similar_companies |-> _extract_similar_companies(diffbot_company),
             technologies |-> _extract_technologies(diffbot_company),
             news_updates |-> _extract_news_updates(li_company, diffbot_company)])

\* Returns [pending, prompt, record, rest]
_extract_combined_data_with_validation(li_company, diffbot_company, base_info, answers) ==
    ValidateFrom(base_info, li_company, diffbot_company,
        ValidateEmployees(_extract_total_employees(li_company, EmptyDict),
                          _extract_total_employees(EmptyDict, diffbot_company),
                          base_info.company_name, answers))

\* lines 94-101: the record of one company, or the prompt waited at
CompanyInfo(li_company, diffbot_company, companies_df, hv, answers) ==
    IF hv /\ DictTruthy(diffbot_company)
    THEN _extract_combined_data_with_validation(li_company, diffbot_company,
             _extract_base_info(li_company, companies_df), answers)
    ELSE [pending |-> FALSE, prompt |-> EmptyDict, rest |-> answers,
          record |-> _extract_combined_data(li_company, diffbot_company,
                                            companies_df)]

\* firmographics.append(company_info) and the rest of the loop
RECURSIVE CombinedRecords(_, _, _, _, _)
AppendAndGoOn(company_info, companies_df, li_rest, diffbot_results, hv) ==
    IF company_info.pending
    THEN [pending |-> TRUE, prompt |-> company_info.prompt, records |-> << >>]
    ELSE [CombinedRecords(companies_df, li_rest, diffbot_results, hv,
                          company_info.rest)
          EXCEPT !.records = <<company_info.record>> \o @]

\* lines 83-103: the loop over linkedin_data, up to the prompt it waits at
CombinedRecords(companies_df, li_results, diffbot_results, hv, answers) ==
    IF li_results = << >>
    THEN [pending |-> FALSE, prompt |-> EmptyDict, records |-> << >>]
    ELSE AppendAndGoOn(
             CompanyInfo(Head(li_results),
                         _find_matching_diffbot_data(
                             _extract_base_info(Head(li_results), companies_df).company_url,
                             _extract_base_info(Head(li_results), companies_df).company_name,
                             _extract_base_info(Head(li_results), companies_df).linkedin_uri,
                             diffbot_results),
                         companies_df, hv, answers),
             companies_df, Tail(li_results), diffbot_results, hv)

\* extract_firmographics with human_validation = hv and the operator's
\* accepted inputs so far: [pending, prompt, records], records being the list
\* written to output_path when the function is not waiting at a prompt
extract_firmographics(companies_df, li_results, diffbot_results, hv, answers) ==
    IF li_results = << >>
    THEN [pending |-> FALSE, prompt |-> EmptyDict,
          records |-> [i \in DOMAIN diffbot_results |->
            _extract_from_diffbot_only(diffbot_results[i],
                company_mappings(companies_df,
                    Get(Get(diffbot_results[i], "metadata", EmptyDict), "company_url", "")))]]
    ELSE CombinedRecords(companies_df, li_results, diffbot_results, hv, answers)

---------------------------------------------------------------------------
\* Inputs of the enrichment passes

MaxArticles == 2
MaxNews == 2

SeqsUpTo(S, n) == UNION {[1..k -> S] : k \in 0..n}

\* Articles of the knowledge-graph payload
ArtHiring == [date |-> "2024-01-01", title |-> "Hiring 100", summary |-> "", url |-> "u1"]
ArtPicnic == [date |-> "2024-01-02", title |-> "picnic", summary |-> "", url |-> "u2"]
Articles == {ArtHiring, ArtPicnic}

\* A knowledge-graph payload with one result carrying the articles
DiffbotCompany(articles) ==
    [data |-> <<[entity |-> [articles |-> articles]]>>,
     metadata |-> [company_url |-> "a.com"]]

\* Values reconciliation leaves in a record (the extractors' shapes:
\* employees has both keys, hq_address and revenue are {} or have all keys)
DiffbotAddr ==
    [country |-> "US", city |-> "NY", state |-> "NY",
     postal_code |-> "", full_address |-> ""]
DiffbotRevenue == [amount |-> 100, currency |-> "USD", range |-> ""]
ReconciledEmployees == {[total |-> 0, it_staff |-> 7], [total |-> 100, it_staff |-> 7]}
ReconciledAddresses == {EmptyDict, DiffbotAddr}
ReconciledRevenues == {EmptyDict, DiffbotRevenue}

ReconciledRecord(name, employees, hq_address, revenue, news_updates) ==
    [entityName |-> name,
     data |-> [company_url |-> "a.com",
               linkedin_uri |-> "linkedin.com/company/a",
               employees |-> employees,
               hq_address |-> hq_address,
               revenue |-> revenue,
               industry_verticals |-> <<"Software">>,
               similar_companies |-> << >>,
               technologies |-> <<"Python">>,
               news_updates |-> news_updates]]

\* Answers of the LLM source
LLMAddr ==
    [country |-> "us", city |-> "ny", state |-> "ny",
     postal_code |-> "10001", full_address |-> "1 Main St"]
LLMAddrOther ==
    [country |-> "us", city |-> "", state |-> "",
     postal_code |-> "94105", full_address |-> "2 Market St"]
LLMRevenue == [amount |-> 130, currency |-> "USD", range |-> "100-200"]

NewsReuters ==
    [source |-> "reuters", date |-> "2024-01-01", title |-> "Hiring 100",
     url |-> "r1", type |-> "Hiring"]
NewsReuters2024 ==
    [source |-> "reuters-2024", date |-> "01-01", title |-> "Hiring 100",
     url |-> "r2", type |-> "Hiring"]
NewsDiffbotAgain ==
    [source |-> "diffbot", date |-> "2024-01-01", title |-> "Hiring 100",
     url |-> "r3", type |-> "Other"]
NewsItems == {NewsReuters, NewsReuters2024, NewsDiffbotAgain}

EmployeeFetches ==
    {Raised, Returned(EmptyDict), Returned([total |-> 0]),
     Returned([total |-> 110]), Returned([total |-> 120])}
LocationFetches ==
    {Raised, Returned(EmptyDict), Returned(LLMAddr), Returned(LLMAddrOther),
     Returned([country |-> "us", city |-> "", state |-> "",
               postal_code |-> "", full_address |-> ""]),
     Returned([country |-> "us", city |-> "ny", state |-> "nj",
               postal_code |-> "", full_address |-> ""])}
RevenueFetches ==
    {Raised, Returned(EmptyDict), Returned(LLMRevenue), Returned([amount |-> 116, currency |-> "USD"])}
NewsFetches == {Raised} \cup {Returned(l) : l \in SeqsUpTo(NewsItems, MaxNews)}

Quiet == Returned(EmptyDict)

Response(e, l, r, n) == [employees |-> e, location |-> l, revenue |-> r, news |-> n]

\* One pass's answers: one field's fetch is arbitrary while the others have
\* nothing to report, or every field reports a value.
Responses ==
    {Response(e, Quiet, Quiet, Quiet) : e \in EmployeeFetches}
    \cup {Response(Quiet, l, Quiet, Quiet) : l \in LocationFetches}
    \cup {Response(Quiet, Quiet, r, Quiet) : r \in RevenueFetches}
    \cup {Response(Quiet, Quiet, Quiet, n) : n \in NewsFetches}
    \cup {Response(Returned([total |-> 120]), Returned(LLMAddr),
                   Returned(LLMRevenue), Returned(n)) : n \in {<< >>, <<NewsReuters>>}}

\* The validate flags of a run: --validate-employees --validate-location
\* --validate-revenue all given, or none of them
AllFlags == [validate_employees |-> TRUE, validate_location |-> TRUE,
             validate_revenue |-> TRUE]
NoFlags == [validate_employees |-> FALSE, validate_location |-> FALSE,
            validate_revenue |-> FALSE]
\* --validate-employees --validate-revenue without --validate-location
NoLocationFlag == [validate_employees |-> TRUE, validate_location |-> FALSE,
                   validate_revenue |-> TRUE]
Args == {AllFlags, NoFlags, NoLocationFlag}

NoResponse == Response(Quiet, Quiet, Quiet, Quiet)

---------------------------------------------------------------------------
\* The state outside the part a specification is about

LimiterIdle ==
    /\ rate_limit_config = [requests_per_minute |-> 0, time_window |-> 0,
                            base_delay |-> 0, max_retries |-> 0]
    /\ request_times = << >>
    /\ clock = 0
    /\ releases = << >>

NoFile == [exists |-> FALSE, content |-> {}]
NoSnapshot == [exists |-> FALSE, content |-> << >>]

RunIdle ==
    /\ pc = "idle"
    /\ run = "first"
    /\ input_companies = << >>
    /\ resume = FALSE
    /\ progress_file = NoFile
    /\ firmographics_output = NoSnapshot
    /\ archived = [progress |-> NoFile, snapshot |-> NoSnapshot]
    /\ processed_companies = {}
    /\ firmographics_data = << >>
    /\ idx = 0
    /\ outcome = << >>
    /\ llm_called = {}
    /\ io_errors = 0

FetchIdle ==
    /\ client = ""
    /\ field = ""
    /\ attempt = 0
    /\ upstream = << >>
    /\ sleeps = << >>
    /\ fetch_state = "idle"
    /\ fetch_result = EmptyDict

ReconcileIdle ==
    /\ rec_pc = "idle"
    /\ li_init = "untried"
    /\ linkedin_data = << >>
    /\ diffbot_data = << >>
    /\ firmographics = << >>
    /\ human_validation = FALSE
    /\ pending_prompt = EmptyDict
    /\ answered_prompts = << >>
    /\ bad_inputs = 0

EnrichIdle ==
    /\ company = ReconciledRecord("A", [total |-> 0, it_staff |-> 0],
                                  EmptyDict, EmptyDict, << >>)
    /\ before = company
    /\ lastResp = NoResponse
    /\ lastRaised = FALSE
    /\ passKind = "none"
    /\ args = AllFlags

---------------------------------------------------------------------------
\* SpecEnrich: one reconciled record under repeated enrichment passes

InitEnrich ==
    /\ \E articles \in SeqsUpTo(Articles, MaxArticles),
          e \in ReconciledEmployees, h \in ReconciledAddresses,
          r \in ReconciledRevenues :
          company = ReconciledRecord("A", e, h, r,
                        _extract_news_updates(EmptyDict, DiffbotCompany(articles)))
    /\ before = company
    /\ lastResp = NoResponse
    /\ lastRaised = FALSE
    /\ passKind = "none"
    /\ args \in Args
    /\ LimiterIdle
    /\ RunIdle
    /\ FetchIdle
    /\ ReconcileIdle

\* One call of process_company with the LLM source answering resp
Pass(resp, kind) ==
    LET result == process_company(company, resp, args)
    IN  /\ company' = result.company
        /\ before' = company
        /\ lastResp' = resp
        /\ lastRaised' = result.raised
        /\ passKind' = kind
        /\ UNCHANGED <<args, limiterVars, runVars, fetchVars, reconcileVars>>

EnrichPass == \E resp \in Responses : Pass(resp, "fresh")

\* A further pass in which the LLM source answers as in the pass before
RepeatPass ==
    /\ passKind # "none"
    /\ Pass(lastResp, "repeat")

NextEnrich == EnrichPass \/ RepeatPass

SpecEnrich == InitEnrich /\ [][NextEnrich]_vars

---------------------------------------------------------------------------
\* Properties of the enrichment passes (SpecEnrich)

news_of(c) == c.data.news_updates

\* The (source, date, title) triple of a news entry
Triple(news) == <<Get(news, "source", ""), Get(news, "date", ""), Get(news, "title", "")>>

IsPrefix(s, t) == Len(s) <= Len(t) /\ \A i \in 1..Len(s) : s[i] = t[i]

\* C2: after reconciliation and any number of enrichment passes, a record's
\* news_updates holds no two entries with the same (source, date, title).
C2_NoDuplicateTriples ==
    \A i, j \in DOMAIN news_of(company) :
        i # j => Triple(news_of(company)[i]) # Triple(news_of(company)[j])

\* C3: with all validate flags set, a pass in which the LLM source answers as
\* in the pass before leaves the record as the pass before left it.
C3_Idempotent ==
    (passKind = "repeat" /\ args = AllFlags) => company = before

C3_RepeatedRichPass ==
    /\ passKind = "repeat"
    /\ args = AllFlags
    /\ ~lastRaised
    /\ lastResp.news = Returned(<<NewsReuters>>)
    /\ lastResp.location = Returned(LLMAddr)
    /\ company.data.hq_address = LLMAddr
    /\ company.data.employees.total = 120
    /\ company.data.revenue = LLMRevenue
    /\ \E i \in DOMAIN news_of(company) : news_of(company)[i] = NewsReuters

\* C4: the news list before a pass is a prefix of the news list after it.
C4_NewsAppendOnly == IsPrefix(news_of(before), news_of(company))

C4_PassAppended ==
    /\ passKind = "fresh"
    /\ Len(news_of(before)) > 0
    /\ Len(news_of(company)) > Len(news_of(before))

\* The merge the claim describes: append exactly the fetched entries whose
\* triple no entry of the list has (entries appended earlier included)
RECURSIVE MergeByTriple(_, _)
MergeByTriple(news_updates, additional_news) ==
    IF additional_news = << >> THEN news_updates
    ELSE LET news_item == Head(additional_news)
             known == {Triple(news_updates[i]) : i \in DOMAIN news_updates}
         IN  MergeByTriple(IF Triple(news_item) \in known THEN news_updates
                           ELSE Append(news_updates, news_item),
                           Tail(additional_news))

\* C5: a pass appends a fetched entry iff its (source, date, title) differs
\* from that of every entry already in the list; entries with different
\* triples are never taken for duplicates.
C5_AppendedIffNewTriple ==
    (passKind # "none" /\ ~lastRaised) =>
        news_of(company) = MergeByTriple(news_of(before), lastResp.news.value)

\* The pass of the last step reached the employee, location, revenue step
ReachedEmployees == passKind # "none" /\ args.validate_employees
ReachedLocation ==
    /\ passKind # "none"
    /\ args.validate_location
    /\ args.validate_employees => ~EnrichEmployees(before.data, lastResp.employees).raised
ReachedRevenue ==
    /\ passKind # "none"
    /\ args.validate_revenue
    /\ args.validate_employees => ~EnrichEmployees(before.data, lastResp.employees).raised
    /\ args.validate_location => ~lastResp.location.raised

\* C18: an employee update on a record whose total is 0, with a fetched
\* total T > 0, leaves the record's total equal to T.
C18_ZeroTotalTakesFetched ==
    (/\ ReachedEmployees
     /\ Get(before.data.employees, "total", 0) = 0
     /\ ~lastResp.employees.raised
     /\ Get(lastResp.employees.value, "total", 0) > 0) =>
        company.data.employees.total = lastResp.employees.value.total

C18_ZeroTotalUpdated ==
    /\ passKind = "fresh"
    /\ args.validate_employees
    /\ before.data.employees.total = 0
    /\ lastResp.employees = Returned([total |-> 120])
    /\ company.data.employees.total = 120

\* C19: a location update in which the fetched address has more populated
\* sub-fields than the current one leaves hq_address equal to the fetched
\* address.
C19_MoreCompleteAddressWins ==
    (/\ ReachedLocation
     /\ ~lastResp.location.raised
     /\ PopulatedFields(before.data.hq_address)
            < PopulatedFields(lastResp.location.value)) =>
        company.data.hq_address = lastResp.location.value

C19_PartialAddressReplaced ==
    /\ passKind = "fresh"
    /\ args.validate_location
    /\ before.data.hq_address = DiffbotAddr
    /\ lastResp.location = Returned(LLMAddr)
    /\ company.data.hq_address = LLMAddr

\* The revenue rule of the claim with relative threshold pct (in percent)
RevenueRule(current, new, pct) ==
    LET current_amount == Get(current, "amount", 0)
        new_amount == Get(new, "amount", 0)
    IN  \/ current_amount = 0 /\ new_amount # 0
        \/ /\ current_amount # 0 /\ new_amount # 0
           /\ 100 * Abs(current_amount - new_amount) > pct * current_amount
           /\ PopulatedFields(new) >= PopulatedFields(current)

\* C20: a revenue update replaces the current revenue by the fetched one
\* exactly when the rule holds, with the threshold of 15% under which
\* current 100 USD and fetched 116 USD are replaced iff the fetched value is
\* at least as complete.
C20_RevenueReplacedByRule ==
    (/\ ReachedRevenue
     /\ ~lastResp.revenue.raised
     /\ lastResp.revenue.value # before.data.revenue) =>
        (company.data.revenue = lastResp.revenue.value
            <=> RevenueRule(before.data.revenue, lastResp.revenue.value, 15))

\* C21: a pass leaves entityName, company_url, linkedin_uri,
\* industry_verticals, technologies and similar_companies as they were
\* before the pass.
C21_PassKeepsIdentityAndOtherFields ==
    /\ company.entityName = before.entityName
    /\ \A k \in {"company_url", "linkedin_uri", "industry_verticals",
                  "technologies", "similar_companies"} :
           /\ k \in DOMAIN company.data
           /\ company.data[k] = before.data[k]

C21_PassChangedEveryEnrichedField ==
    /\ passKind = "fresh"
    /\ ~lastRaised
    /\ company.data.employees # before.data.employees
    /\ DictTruthy(before.data.hq_address)
    /\ company.data.hq_address # before.data.hq_address
    /\ company.data.revenue # before.data.revenue
    /\ company.data.news_updates # before.data.news_updates
    /\ company.entityName = before.entityName
    /\ company.data.industry_verticals = before.data.industry_verticals

\* C26: an employee update stores the fetched total exactly when the current
\* total is zero, or both totals are non-zero and differ by more than the
\* relative threshold; a non-zero current total is kept when the fetched
\* total is zero or missing.
C26_EmployeesReplacedByRule ==
    (ReachedEmployees /\ ~lastResp.employees.raised) =>
        LET current_total == Get(before.data.employees, "total", 0)
            fetched == lastResp.employees.value
            new_total == Get(fetched, "total", 0)
        IN  /\ ("total" \in DOMAIN fetched /\ new_total # current_total) =>
                  (company.data.employees.total = new_total
                     <=> \/ current_total = 0
                         \/ /\ current_total # 0 /\ new_total # 0
                            /\ 100 * Abs(current_total - new_total)
                                  > EmployeeThresholdPct * current_total)
            /\ (current_total # 0 /\ new_total = 0) =>
                  company.data.employees.total = current_total

C26_NearTotalKept ==
    /\ passKind = "fresh"
    /\ args.validate_employees
    /\ before.data.employees.total = 100
    /\ lastResp.employees = Returned([total |-> 110])
    /\ company.data.employees.total = 100

\* C27: when the fetched address has no more populated sub-fields than the
\* current one, a location update replaces the current address exactly when
\* fewer than 2 of country, city, state are populated in both and equal
\* ignoring case, and the fetched address has at least as many populated
\* sub-fields as the current one.
C27_LocationReplacedByMatchRule ==
    (/\ ReachedLocation
     /\ ~lastResp.location.raised
     /\ DictTruthy(before.data.hq_address)
     /\ DictTruthy(lastResp.location.value)
     /\ lastResp.location.value # before.data.hq_address
     /\ PopulatedFields(lastResp.location.value)
            <= PopulatedFields(before.data.hq_address)) =>
        LET current == before.data.hq_address
            new == lastResp.location.value
            matching == {f \in key_fields :
                            /\ Get(current, f, "") # ""
                            /\ Get(new, f, "") # ""
                            /\ Lower(current[f]) = Lower(new[f])}
        IN  company.data.hq_address = new
               <=> /\ Cardinality(matching) < 2
                   /\ PopulatedFields(new) >= PopulatedFields(current)

C27_EquallyCompleteAddressReplaced ==
    /\ passKind = "fresh"
    /\ args.validate_location
    /\ before.data.hq_address = DiffbotAddr
    /\ lastResp.location = Returned(LLMAddrOther)
    /\ company.data.hq_address = LLMAddrOther

\* The record field a validate flag gates
FlagOf(f) ==
    CASE f = "employees" -> "validate_employees"
      [] f = "hq_address" -> "validate_location"
      [] OTHER -> "validate_revenue"

\* C32: a pass makes no request for a field whose flag is not set and
\* leaves that field as it was; the news are requested and merged whatever
\* the flags are, whenever no earlier step of the pass raised.
C32_FieldsGatedByFlags ==
    passKind # "none" =>
        LET out == process_company(before, lastResp, args)
        IN  /\ \A f \in {"employees", "hq_address", "revenue"} :
                  ~args[FlagOf(f)] =>
                      /\ (IF f = "hq_address" THEN "location" ELSE f) \notin out.requested
                      /\ company.data[f] = before.data[f]
            /\ (\A f \in {"employees", "hq_address", "revenue"} : ~args[FlagOf(f)]) =>
                  "news" \in out.requested
            /\ ~lastRaised =>
                  /\ "news" \in out.requested
                  /\ news_of(company) =
                        MergeNews(news_of(before),
                                  {news_identifier(news_of(before)[i]) :
                                       i \in DOMAIN news_of(before)},
                                  lastResp.news.value)

C32_UngatedFieldsEnrichedAroundGatedOne ==
    /\ passKind = "fresh"
    /\ args = NoLocationFlag
    /\ lastResp.location = Returned(LLMAddr)
    /\ lastResp.news = Returned(<<NewsReuters>>)
    /\ before.data.hq_address = DiffbotAddr
    /\ company.data.hq_address = DiffbotAddr
    /\ company.data.employees.total = 120
    /\ company.data.revenue = LLMRevenue
    /\ Len(news_of(company)) > Len(news_of(before))

\* C36: a pass in which the fetch of a field returned an empty result
\* leaves a non-zero employees total, a non-empty hq_address and a non-empty
\* revenue as they were.
C36_EmptyFetchKeepsPopulatedField ==
    /\ (/\ ReachedEmployees
        /\ lastResp.employees = Returned(EmptyDict)
        /\ Get(before.data.employees, "total", 0) # 0) =>
           company.data.employees = before.data.employees
    /\ (/\ ReachedLocation
        /\ lastResp.location = Returned(EmptyDict)
        /\ DictTruthy(before.data.hq_address)) =>
           company.data.hq_address = before.data.hq_address
    /\ (/\ ReachedRevenue
        /\ lastResp.revenue = Returned(EmptyDict)
        /\ DictTruthy(before.data.revenue)) =>
           company.data.revenue = before.data.revenue

C36_PopulatedRecordMetEmptyFetches ==
    /\ passKind = "fresh"
    /\ args = AllFlags
    /\ lastResp = NoResponse
    /\ before.data.employees.total = 100
    /\ before.data.hq_address = DiffbotAddr
    /\ before.data.revenue = DiffbotRevenue
    /\ company.data.revenue = DiffbotRevenue
    /\ company.data.hq_address = DiffbotAddr

\* C37: an employee update leaves employees.it_staff as it was, whether the
\* current total is zero or not.
C37_ItStaffKept ==
    (/\ ReachedEmployees
     /\ ~lastResp.employees.raised
     /\ ~EnrichEmployees(before.data, lastResp.employees).raised) =>
        /\ "it_staff" \in DOMAIN company.data.employees
        /\ company.data.employees.it_staff = before.data.employees.it_staff

---------------------------------------------------------------------------
\* SpecLimiter: _wait_for_rate_limit of one source client (the three clients
\* carry the same code)

MaxCalls == 4

\* main.py: linkedin_config
linkedin_config ==
    [requests_per_minute |-> 1, time_window |-> 60, base_delay |-> 5, max_retries |-> 3]

\* Seconds the caller lets pass between one return and the next call
Gaps == {0, 1, 30, 60}

InitLimiter ==
    /\ rate_limit_config = linkedin_config
    /\ request_times = << >>
    /\ clock = 0
    /\ releases = << >>
    /\ EnrichIdle
    /\ RunIdle
    /\ FetchIdle
    /\ ReconcileIdle

\* One call at time now: returns at now + the time slept
WaitAt(now) ==
    LET kept == SelectSeq(request_times,
                    LAMBDA t : now - t < rate_limit_config.time_window)
        sleep_time ==
            IF Len(kept) >= rate_limit_config.requests_per_minute
            THEN rate_limit_config.time_window - (now - kept[1])
            ELSE 0
        slept == IF sleep_time > 0 THEN sleep_time ELSE 0
    IN  /\ request_times' = Append(kept, now)
        /\ clock' = now + slept
        /\ releases' = Append(releases, now + slept)

_wait_for_rate_limit ==
    /\ Len(releases) < MaxCalls
    /\ \E gap \in Gaps : WaitAt(clock + gap)
    /\ UNCHANGED <<rate_limit_config, enrichVars, runVars, fetchVars, reconcileVars>>

NextLimiter == _wait_for_rate_limit

SpecLimiter == InitLimiter /\ [][NextLimiter]_vars

\* C10: within any interval of time_window seconds no more than
\* requests_per_minute calls of _wait_for_rate_limit return.
C10_SlidingWindow ==
    \A i \in DOMAIN releases :
        Cardinality({j \in DOMAIN releases :
            /\ releases[i] <= releases[j]
            /\ releases[j] < releases[i] + rate_limit_config.time_window})
          <= rate_limit_config.requests_per_minute

---------------------------------------------------------------------------
\* SpecFetch: one fetch of one company (or of one field of one company) by
\* one source client, against an upstream that answers each request as it
\* likes

\* main.py: diffbot_config, perplexity_config
diffbot_config ==
    [requests_per_minute |-> 20, time_window |-> 60, base_delay |-> 5, max_retries |-> 3]
perplexity_config ==
    [requests_per_minute |-> 20, time_window |-> 60, base_delay |-> 5, max_retries |-> 3]

Clients == {"diffbot", "linkedin", "perplexity"}

\* self.rate_limit_config of a client
ClientConfig(c) ==
    CASE c = "diffbot" -> diffbot_config
      [] c = "linkedin" -> linkedin_config
      [] OTHER -> perplexity_config

\* The per-field fetches of the LLM client: _get_employee_data,
\* _get_location_data, _get_revenue_data, _get_additional_news
Fields == {"employees", "location", "revenue", "news"}

\* The identifier the fetch is called with: company_url, company_id or
\* company_name
Identifier(c) ==
    CASE c = "diffbot" -> "a.com"
      [] c = "linkedin" -> "1035"
      [] OTHER -> "A"

\* What the upstream answers to one request.  kind:
\*   "ok"             a response the client can use
\*   "429"            HTTP 429, with the Retry-After header in retry_after
\*   "request_failed" the request raises a requests RequestException other
\*                    than a timeout (connection error, HTTP error status)
\*   "timeout"        the request raises requests.exceptions.Timeout
\*   "unparsable"     HTTP 200 with a body the parsing raises KeyError or
\*                    JSONDecodeError on
\*   "no_json_block"  (news) HTTP 200 with no code block that parses to a list
\*   "bad_total"      (employees) a total that is a string int() rejects
\*   "api_error"      (linkedin) a dict carrying 'message' or 'error'
\*   "no_data"        (linkedin) a falsy value
Answer(kind, retry_after) == [kind |-> kind, retry_after |-> retry_after]

\* Retry-After is absent, a number of seconds, or an HTTP-date
RetryAfterHeaders == {"absent", "7", "Wed, 21 Oct 2026 07:28:00 GMT"}

\* int(s): [ok, value]; ok is FALSE where int() raises ValueError
IntOf(s) ==
    CASE s = "7" -> [ok |-> TRUE, value |-> 7]
      [] OTHER -> [ok |-> FALSE, value |-> 0]

DiffbotAnswers ==
    {Answer("ok", ""), Answer("request_failed", "")}
    \cup {Answer("429", h) : h \in RetryAfterHeaders}
LinkedInAnswers ==
    {Answer(k, "") : k \in {"ok", "request_failed", "api_error", "no_data"}}
PerplexityAnswers(f) ==
    {Answer(k, "") : k \in {"ok", "timeout", "request_failed", "unparsable"}
                          \cup (IF f = "employees" THEN {"bad_total"} ELSE {})
                          \cup (IF f = "news" THEN {"no_json_block"} ELSE {})}

InitFetch ==
    /\ client \in Clients
    /\ field \in (IF client = "perplexity" THEN Fields ELSE {""})
    /\ attempt = 0
    /\ upstream = << >>
    /\ sleeps = << >>
    /\ fetch_state = "running"
    /\ fetch_result = EmptyDict
    /\ EnrichIdle
    /\ LimiterIdle
    /\ RunIdle
    /\ ReconcileIdle

\* return value
Return(value) ==
    /\ fetch_state' = "returned"
    /\ fetch_result' = value
    /\ UNCHANGED attempt

\* an exception leaves the fetch
Propagate ==
    /\ fetch_state' = "raised"
    /\ UNCHANGED <<attempt, fetch_result>>

\* The next iteration of `for attempt in range(max_retries)`, or the
\* statement after the loop when the range is used up
NextAttemptOr(after_loop) ==
    IF attempt + 1 < ClientConfig(client).max_retries
    THEN /\ attempt' = attempt + 1
         /\ UNCHANGED <<fetch_state, fetch_result>>
    ELSE Return(after_loop)

\* diffbot_company_analyzer.py get_company_data: one iteration of the loop
get_company_data ==
    /\ client = "diffbot"
    /\ fetch_state = "running"
    /\ \E answer \in DiffbotAnswers :
          LET base_delay == diffbot_config.base_delay
              max_retries == diffbot_config.max_retries
              retry_after == IF answer.retry_after = "absent"
                             THEN [ok |-> TRUE, value |-> base_delay]
                             ELSE IntOf(answer.retry_after)
          IN  /\ upstream' = Append(upstream, answer)
              /\ CASE answer.kind = "ok" ->
                        /\ Return([data |-> << >>,
                                   metadata |-> [company_url |-> Identifier(client),
                                                 attempt |-> attempt + 1]])
                        /\ UNCHANGED sleeps
                   [] answer.kind = "429" ->
                        IF retry_after.ok
                        THEN /\ sleeps' = Append(sleeps, retry_after.value)
                             /\ NextAttemptOr([company_url |-> Identifier(client),
                                               error |-> "Max retries exceeded"])
                        ELSE /\ Propagate
                             /\ UNCHANGED sleeps
                   [] OTHER ->
                        IF attempt = max_retries - 1
                        THEN /\ Return([company_url |-> Identifier(client),
                                        error |-> "request failed"])
                             /\ UNCHANGED sleeps
                        ELSE /\ sleeps' = Append(sleeps, base_delay * (attempt + 1))
                             /\ attempt' = attempt + 1
                             /\ UNCHANGED <<fetch_state, fetch_result>>
    /\ UNCHANGED <<client, field, enrichVars, limiterVars, runVars, reconcileVars>>

\* linkedin_company_analyzer.py get_company_details: get_company, then
\* get_company_updates when the first answer is usable
get_company_details ==
    /\ client = "linkedin"
    /\ fetch_state = "running"
    /\ \E answer \in LinkedInAnswers :
          CASE answer.kind = "request_failed" ->
                  /\ upstream' = Append(upstream, answer)
                  /\ Return([company_id |-> Identifier(client),
                             error |-> [message |-> "request failed",
                                        type |-> "Exception"]])
            [] answer.kind \in {"api_error", "no_data"} ->
                  /\ upstream' = Append(upstream, answer)
                  /\ fetch_state' = "returned_none"
                  /\ UNCHANGED <<attempt, fetch_result>>
            [] OTHER ->
                  \E updates \in {Answer("ok", ""), Answer("request_failed", "")} :
                      /\ upstream' = upstream \o <<answer, updates>>
                      /\ Return([company_id |-> Identifier(client),
                                 raw_data |-> [company_updates |->
                                     IF updates.kind = "ok" THEN <<"update">>
                                     ELSE << >>],
                                 structured_data |-> [name |-> "A"]])
    /\ UNCHANGED <<client, field, sleeps, enrichVars, limiterVars, runVars,
                   reconcileVars>>

\* perplexity_enricher.py _get_employee_data, _get_location_data,
\* _get_revenue_data, _get_additional_news: one iteration of the loop.
\* _make_api_call is called before the try block of the iteration.
get_field_data ==
    /\ client = "perplexity"
    /\ fetch_state = "running"
    /\ \E answer \in PerplexityAnswers(field) :
          LET base_delay == perplexity_config.base_delay
              max_retries == perplexity_config.max_retries
          IN  /\ upstream' = Append(upstream, answer)
              /\ CASE answer.kind = "ok" ->
                        /\ Return([value |-> "parsed"])
                        /\ UNCHANGED sleeps
                   [] answer.kind \in {"timeout", "request_failed"} ->
                        /\ Propagate
                        /\ UNCHANGED sleeps
                   [] answer.kind = "unparsable" ->
                        /\ sleeps' = IF attempt < max_retries - 1
                                     THEN Append(sleeps, base_delay)
                                     ELSE sleeps
                        /\ NextAttemptOr(EmptyDict)
                   [] OTHER ->
                        /\ NextAttemptOr(EmptyDict)
                        /\ UNCHANGED sleeps
    /\ UNCHANGED <<client, field, enrichVars, limiterVars, runVars, reconcileVars>>

NextFetch == get_company_data \/ get_company_details \/ get_field_data

SpecFetch == InitFetch /\ [][NextFetch]_vars

\* The answers that are a rate-limit signal or a transient request failure
FailedRequest(answer) == answer.kind \in {"429", "request_failed", "timeout"}

\* An error result: the identifier and a message
IsErrorResult(r) ==
    /\ "error" \in DOMAIN r
    /\ \/ "company_url" \in DOMAIN r /\ r.company_url = Identifier(client)
       \/ "company_id" \in DOMAIN r /\ r.company_id = Identifier(client)

\* C11: a fetch makes at most max_retries upstream requests, and a fetch
\* that ended with every request failed (rate-limit signal or request
\* failure) returned an error result with the identifier and a message; it
\* did not raise.
C11_BoundedRetriesThenErrorResult ==
    fetch_state # "idle" =>
        /\ Len(upstream) <= ClientConfig(client).max_retries
        /\ (/\ fetch_state # "running"
            /\ \A i \in DOMAIN upstream : FailedRequest(upstream[i])) =>
               /\ fetch_state = "returned"
               /\ IsErrorResult(fetch_result)

\* C12: a timeout of a request of a per-field fetch does not leave the fetch
\* as an exception, and the fetch goes on to its next attempt while attempts
\* remain.
C12_TimeoutIsFailedAttempt ==
    (/\ client = "perplexity"
     /\ upstream # << >>
     /\ upstream[Len(upstream)].kind = "timeout") =>
        /\ fetch_state # "raised"
        /\ Len(upstream) < perplexity_config.max_retries => fetch_state = "running"

\* The sleep the claimed backoff puts after the k-th attempt
ClaimedSleep(answer, k, base_delay) ==
    IF answer.kind = "429"
    THEN IF answer.retry_after = "absent" THEN base_delay
         ELSE IntOf(answer.retry_after).value
    ELSE base_delay * k

\* C25: in every client, a fetch that is about to make a further attempt
\* has slept, after each attempt so far, the server-suggested delay (or
\* base_delay) when the attempt got a rate-limit signal, and base_delay * k
\* when the k-th attempt failed by a request error, a timeout or an
\* unparseable body.
C25_SameBackoffInAllClients ==
    (/\ fetch_state = "running"
     /\ \A i \in DOMAIN upstream :
           upstream[i].kind \in {"429", "request_failed", "timeout", "unparsable"}) =>
        sleeps = [k \in DOMAIN upstream |->
                     ClaimedSleep(upstream[k], k, ClientConfig(client).base_delay)]

---------------------------------------------------------------------------
\* Spec: main(), a run on a clean output directory and a later run

MaxIOErrors == 1

\* The rows of input/companies.csv, by the entity name the sources give them
\* (two rows may carry the same name: the file is not checked for duplicates)
CompanyLists == {<<"A">>, <<"A", "B">>, <<"B", "A">>, <<"A", "A">>}

\* The row of input/companies.csv of a company
Url(name) == IF name = "A" THEN "a.com" ELSE "b.com"
Uri(name) ==
    IF name = "A" THEN "linkedin.com/company/a" ELSE "linkedin.com/company/b"
CsvRow(name) ==
    [company_name |-> name, company_url |-> Url(name),
     li_company_uri |-> Uri(name), li_company_id |-> name]

\* What get_company_details returns for the company when the profile is
\* found: no employee count
LiDetails(name) ==
    [company_id |-> name,
     raw_data |-> [metadata |-> [company_uri |-> Uri(name)]],
     structured_data |-> [name |-> name, total_employees |-> 0]]

\* The entity of the knowledge-graph payload of the company: no employee
\* count, no location, no revenue, no articles
RunEntity(name) ==
    [name |-> name, allNames |-> <<name>>, homepageUri |-> Url(name),
     employeeCategories |-> <<[category |-> "Engineering", nbEmployees |-> 7],
                              [category |-> "Sales", nbEmployees |-> 5]>>,
     industries |-> <<"Software">>,
     technographics |-> <<[technology |-> [name |-> "Python"]]>>]

\* What get_company_data returns for the company
RunPayload(name) ==
    [data |-> <<[entity |-> RunEntity(name)]>>,
     metadata |-> [company_url |-> Url(name), attempt |-> 1]]

\* What the LLM source answers for one company of a run
RichResponse ==
    Response(Returned([total |-> 120]), Returned(LLMAddr),
             Returned(LLMRevenue), Returned(<<NewsReuters>>))
RunResponses ==
    {NoResponse, RichResponse,
     Response(Raised, Quiet, Quiet, Quiet),
     Response(Returned([total |-> 120]), Raised, Quiet, Quiet),
     Response(Raised, Returned(LLMAddr), Returned(LLMRevenue),
              Returned(<<NewsReuters>>))}

Init ==
    /\ pc = "start"
    /\ run = "first"
    /\ input_companies \in CompanyLists
    /\ resume \in BOOLEAN
    /\ progress_file = NoFile
    /\ firmographics_output = NoSnapshot
    /\ archived = [progress |-> NoFile, snapshot |-> NoSnapshot]
    /\ processed_companies = {}
    /\ firmographics_data = << >>
    /\ idx = 0
    /\ outcome = << >>
    /\ llm_called = {}
    /\ io_errors = 0
    /\ EnrichIdle
    /\ LimiterIdle
    /\ FetchIdle
    /\ ReconcileIdle

\* lines 179-203: every *.json file of output/ is moved to output/archive
archive_existing_outputs ==
    /\ pc = "start"
    /\ archived' = [progress |-> IF progress_file.exists THEN progress_file
                                 ELSE archived.progress,
                    snapshot |-> IF firmographics_output.exists
                                 THEN firmographics_output
                                 ELSE archived.snapshot]
    /\ progress_file' = NoFile
    /\ firmographics_output' = NoSnapshot
    /\ pc' = "load_progress"
    /\ UNCHANGED <<run, input_companies, resume, processed_companies,
                   firmographics_data, idx, outcome, llm_called, io_errors,
                   enrichVars, limiterVars, fetchVars, reconcileVars>>

\* lines 216-221
LoadProgress ==
    /\ pc = "load_progress"
    /\ processed_companies' =
           IF resume /\ progress_file.exists THEN progress_file.content ELSE {}
    /\ pc' = "generate"
    /\ UNCHANGED <<run, input_companies, resume, progress_file,
                   firmographics_output, archived, firmographics_data, idx,
                   outcome, llm_called, io_errors, enrichVars, limiterVars, fetchVars, reconcileVars>>

\* What the source stages of a run collect: companies_df, li_results (empty
\* when the network-profile client did not initialize) and diffbot_results
RunSources(init) ==
    [companies_df |-> [i \in DOMAIN input_companies |-> CsvRow(input_companies[i])],
     li_results |-> IF init = "ok"
                    THEN [i \in DOMAIN input_companies |-> LiDetails(input_companies[i])]
                    ELSE << >>,
     diffbot_results |-> [i \in DOMAIN input_companies |-> RunPayload(input_companies[i])]]

\* lines 254-273 and the start of the loop: the records are reconciled and
\* written to firmographics.json, and the file is read back
WriteAndLoadFirmographics(init) ==
    LET sources == RunSources(init)
    IN  /\ li_init' = init
        /\ linkedin_data' = sources.li_results
        /\ diffbot_data' = sources.diffbot_results
        /\ firmographics' = extract_firmographics(sources.companies_df,
                                 sources.li_results, sources.diffbot_results,
                                 human_validation, << >>).records
        /\ rec_pc' = "written"
        /\ UNCHANGED <<human_validation, pending_prompt, answered_prompts, bad_inputs>>
        /\ firmographics_output' = [exists |-> TRUE, content |-> firmographics']
        /\ firmographics_data' = firmographics'
        /\ idx' = 1
        /\ outcome' = [i \in DOMAIN firmographics' |-> "pending"]
        /\ llm_called' = {}
        /\ pc' = "loop"

\* The source stages with the failure of LinkedInCompanyAnalyzer() leaving
\* main() as an exception
GenerateFirmographicsAborts ==
    /\ pc = "generate"
    /\ \E init \in {"ok", "failed"} :
          IF init = "ok" THEN WriteAndLoadFirmographics(init)
          ELSE /\ li_init' = init
               /\ pc' = "aborted"
               /\ UNCHANGED <<rec_pc, linkedin_data, diffbot_data, firmographics,
                              human_validation, pending_prompt, answered_prompts,
                              bad_inputs, firmographics_output, firmographics_data,
                              idx, outcome, llm_called>>
    /\ UNCHANGED <<run, input_companies, resume, progress_file, archived,
                   processed_companies, io_errors, enrichVars, limiterVars,
                   fetchVars>>

\* lines 223-273: the sources are collected (the network-profile client
\* initializes or raises, which main() catches), the records reconciled and
\* written to firmographics.json, and the file is read back
GenerateFirmographics ==
    /\ pc = "generate"
    /\ \E init \in {"ok", "failed"} : WriteAndLoadFirmographics(init)
    /\ UNCHANGED <<run, input_companies, resume, progress_file, archived,
                   processed_companies, io_errors, enrichVars, limiterVars,
                   fetchVars>>

company_name == firmographics_data[idx].entityName

\* lines 293-295: the except branch, then the next company; what says whether
\* process_company raised ("failed") or a file write did ("failed_write")
ExceptContinue(what) ==
    /\ outcome' = [outcome EXCEPT ![idx] = what]
    /\ idx' = idx + 1
    /\ pc' = "loop"

\* lines 296-297
SkipProcessed ==
    /\ pc = "loop"
    /\ idx <= Len(firmographics_data)
    /\ company_name \in processed_companies
    /\ outcome' = [outcome EXCEPT ![idx] = "skipped"]
    /\ idx' = idx + 1
    /\ UNCHANGED <<pc, run, input_companies, resume, progress_file,
                   firmographics_output, archived, processed_companies,
                   firmographics_data, llm_called, io_errors, enrichVars,
                   limiterVars, fetchVars, reconcileVars>>

\* lines 278-282: process_company mutates the record inside
\* firmographics_data, also when it raises part-way
ProcessCompany ==
    /\ pc = "loop"
    /\ idx <= Len(firmographics_data)
    /\ company_name \notin processed_companies
    /\ \E resp \in RunResponses :
          LET result == process_company(firmographics_data[idx], resp, args)
          IN  /\ firmographics_data' =
                     [firmographics_data EXCEPT ![idx] = result.company]
              /\ IF result.raised
                 THEN ExceptContinue("failed")
                 ELSE /\ pc' = "update_progress"
                      /\ UNCHANGED <<idx, outcome>>
              /\ lastResp' = resp
              /\ lastRaised' = result.raised
    /\ llm_called' = llm_called \cup {idx}
    /\ UNCHANGED <<run, input_companies, resume, progress_file,
                   firmographics_output, archived, processed_companies,
                   io_errors, company, before, passKind, args, limiterVars,
                   fetchVars, reconcileVars>>

\* lines 285-287: the company joins the ledger and the ledger is written
UpdateProgress ==
    /\ pc = "update_progress"
    /\ processed_companies' = processed_companies \cup {company_name}
    /\ progress_file' = [exists |-> TRUE, content |-> processed_companies']
    /\ pc' = "save_state"
    /\ UNCHANGED <<run, input_companies, resume, firmographics_output,
                   archived, firmographics_data, idx, outcome, llm_called,
                   io_errors, enrichVars, limiterVars, fetchVars, reconcileVars>>

\* lines 285-287 when opening the progress file for writing raises
UpdateProgressFails ==
    /\ pc = "update_progress"
    /\ io_errors < MaxIOErrors
    /\ io_errors' = io_errors + 1
    /\ processed_companies' = processed_companies \cup {company_name}
    /\ ExceptContinue("failed_write")
    /\ UNCHANGED <<run, input_companies, resume, progress_file,
                   firmographics_output, archived, firmographics_data,
                   llm_called, enrichVars, limiterVars, fetchVars, reconcileVars>>

\* The end of the try block without the snapshot written
SaveStateNoWrite ==
    /\ pc = "save_state"
    /\ outcome' = [outcome EXCEPT ![idx] = "done"]
    /\ idx' = idx + 1
    /\ pc' = "loop"
    /\ UNCHANGED <<run, input_companies, resume, progress_file, archived,
                   firmographics_output, processed_companies,
                   firmographics_data, llm_called, io_errors, enrichVars,
                   limiterVars, fetchVars, reconcileVars>>

\* lines 290-291: the whole snapshot is written
SaveState ==
    /\ pc = "save_state"
    /\ firmographics_output' = [exists |-> TRUE, content |-> firmographics_data]
    /\ outcome' = [outcome EXCEPT ![idx] = "done"]
    /\ idx' = idx + 1
    /\ pc' = "loop"
    /\ UNCHANGED <<run, input_companies, resume, progress_file, archived,
                   processed_companies, firmographics_data, llm_called,
                   io_errors, enrichVars, limiterVars, fetchVars, reconcileVars>>

\* lines 290-291 when opening the snapshot for writing raises
SaveStateFails ==
    /\ pc = "save_state"
    /\ io_errors < MaxIOErrors
    /\ io_errors' = io_errors + 1
    /\ ExceptContinue("failed_write")
    /\ UNCHANGED <<run, input_companies, resume, progress_file,
                   firmographics_output, archived, processed_companies,
                   firmographics_data, llm_called, enrichVars, limiterVars, fetchVars, reconcileVars>>

\* The end of main() without the progress file removed
CleanUpKeepsFile ==
    /\ pc = "loop"
    /\ idx > Len(firmographics_data)
    /\ pc' = "done"
    /\ UNCHANGED <<run, input_companies, resume, progress_file,
                   firmographics_output, archived, processed_companies,
                   firmographics_data, idx, outcome, llm_called, io_errors,
                   enrichVars, limiterVars, fetchVars, reconcileVars>>

\* lines 299-304
CleanUp ==
    /\ pc = "loop"
    /\ idx > Len(firmographics_data)
    /\ progress_file' = NoFile
    /\ pc' = "done"
    /\ UNCHANGED <<run, input_companies, resume, firmographics_output,
                   archived, processed_companies, firmographics_data, idx,
                   outcome, llm_called, io_errors, enrichVars, limiterVars, fetchVars, reconcileVars>>

\* The process is stopped during the enrichment loop (an interrupt is no
\* Exception and is not caught by the loop)
Interrupted ==
    /\ pc \in {"loop", "update_progress", "save_state"}
    /\ run = "first"
    /\ pc' = "killed"
    /\ UNCHANGED <<run, input_companies, resume, progress_file,
                   firmographics_output, archived, processed_companies,
                   firmographics_data, idx, outcome, llm_called, io_errors,
                   enrichVars, limiterVars, fetchVars, reconcileVars>>

\* main() is started again on the output directory as the first run left it
RunAgain ==
    /\ pc \in {"done", "killed"}
    /\ run = "first"
    /\ run' = "rerun"
    /\ resume' \in BOOLEAN
    /\ pc' = "start"
    /\ processed_companies' = {}
    /\ firmographics_data' = << >>
    /\ idx' = 0
    /\ outcome' = << >>
    /\ llm_called' = {}
    /\ io_errors' = 0
    /\ rec_pc' = "idle"
    /\ li_init' = "untried"
    /\ linkedin_data' = << >>
    /\ diffbot_data' = << >>
    /\ firmographics' = << >>
    /\ UNCHANGED <<input_companies, progress_file, firmographics_output,
                   archived, enrichVars, limiterVars, fetchVars,
                   human_validation, pending_prompt, answered_prompts, bad_inputs>>

Next ==
    \/ archive_existing_outputs
    \/ LoadProgress
    \/ GenerateFirmographics
    \/ SkipProcessed
    \/ ProcessCompany
    \/ UpdateProgress
    \/ UpdateProgressFails
    \/ SaveState
    \/ SaveStateFails
    \/ CleanUp
    \/ Interrupted
    \/ RunAgain

Spec == Init /\ [][Next]_vars

---------------------------------------------------------------------------
\* Properties of the run (Spec)

name_at(i) == firmographics_data[i].entityName

\* C1: a run started with the resume flag on a ledger that holds a company
\* calls the LLM source only for the companies not in that ledger, and the
\* records of the companies in it are in the snapshot after the run as they
\* were in the snapshot before the run.  (The ledger and the snapshot the run
\* found are the ones it moved to the archive.)
C1_ResumeTouchesOnlyPending ==
    (/\ run = "rerun" /\ resume /\ pc = "done" /\ archived.progress.exists
     /\ \E j \in DOMAIN firmographics_data :
            name_at(j) \notin archived.progress.content) =>
        \A i \in DOMAIN firmographics_data :
            name_at(i) \in archived.progress.content =>
                /\ i \notin llm_called
                /\ firmographics_output.content[i] = archived.snapshot.content[i]

\* C6: when the loop moves on from a company whose iteration succeeded, the
\* progress file on disk holds the company and the snapshot on disk holds
\* its enriched record.
C6_PersistedBeforeNext ==
    (pc = "loop" /\ idx > 1 /\ outcome[idx - 1] = "done") =>
        /\ progress_file.exists
        /\ name_at(idx - 1) \in progress_file.content
        /\ firmographics_output.exists
        /\ firmographics_output.content[idx - 1] = firmographics_data[idx - 1]

C6_EnrichedAndMovedOn ==
    /\ pc = "loop"
    /\ idx = 2
    /\ Len(firmographics_data) = 2
    /\ outcome[1] = "done"
    /\ outcome[2] = "pending"
    /\ firmographics_data[1].data.employees.total = 120
    /\ firmographics_output.content[1].data.employees.total = 120

\* C7: when process_company raises for a company the error is caught, the
\* company is absent from the ledger in memory and on disk, and every later
\* company of the snapshot is still submitted to enrichment.
C7_FailureSkipsOnlyThatCompany ==
    \A i \in DOMAIN outcome :
        outcome[i] = "failed" =>
            /\ name_at(i) \notin processed_companies
            /\ progress_file.exists => name_at(i) \notin progress_file.content
            /\ pc = "done" => \A j \in DOMAIN outcome : j > i => j \in llm_called

\* C8: when a company failed enrichment in a run that wrote its ledger, the
\* progress file still exists at the end of the run.
C8_LedgerKeptAfterFailure ==
    (/\ pc = "done"
     /\ \E i \in DOMAIN outcome : outcome[i] = "failed"
     /\ \E i \in DOMAIN outcome : outcome[i] = "done") =>
        progress_file.exists

\* C9: after a run that visited every company the progress file is gone.
C9_NoProgressFileAfterRun == pc = "done" => ~progress_file.exists

C9_RunEndedAfterCheckpoints ==
    /\ pc = "done"
    /\ processed_companies # {}
    /\ \E i \in DOMAIN outcome : outcome[i] = "done"

\* The state of the company at index i of the snapshot
Status(i) ==
    IF outcome[i] = "done" THEN "DONE"
    ELSE IF outcome[i] \in {"failed", "failed_write"} THEN "FAILED"
    ELSE IF idx = i /\ pc \in {"update_progress", "save_state"} THEN "IN_PROGRESS"
    ELSE "PENDING"

\* C24: a company that is DONE is in the ledger and a company that is FAILED
\* is not, and a run that has ended has left no company of the snapshot
\* PENDING or IN_PROGRESS unless the ledger held its name when the loop came
\* to it.
C24_EveryCompanyDoneOrFailed ==
    \A i \in DOMAIN outcome :
        /\ Status(i) = "DONE" => name_at(i) \in processed_companies
        /\ Status(i) = "FAILED" => name_at(i) \notin processed_companies
        /\ pc = "done" =>
              \/ Status(i) \in {"DONE", "FAILED"}
              \/ outcome[i] = "skipped"

\* C33: at every instant, a company that the run enriched and whose name is
\* in the progress file on disk has its enriched record in the snapshot on
\* disk.
C33_LedgerNameImpliesSnapshotRecord ==
    progress_file.exists =>
        \A i \in llm_called :
            (name_at(i) \in progress_file.content /\ outcome[i] # "failed") =>
                /\ firmographics_output.exists
                /\ firmographics_output.content[i] = firmographics_data[i]

\* C34: the record that the snapshot on disk holds for a company whose
\* enrichment raised is the record reconciliation wrote for it.
C34_FailedCompanyPersistedUnenriched ==
    \A i \in DOMAIN outcome :
        (outcome[i] = "failed" /\ firmographics_output.exists) =>
            firmographics_output.content[i] = firmographics[i]

\* C35: a run that found no ledger has, at its end, submitted every record
\* of the snapshot to enrichment.
C35_EveryRecordSubmitted ==
    (pc = "done" /\ run = "first") =>
        \A i \in DOMAIN firmographics_data : i \in llm_called

\* Some fetch of the pass ended in a request failure of the LLM source
SomeRequestFailed(resp) ==
    \E f \in {"employees", "location", "revenue", "news"} : resp[f].raised

\* C13: when the loop moves on from a company during whose pass a request of
\* the LLM source failed for one field, the company completed enrichment and
\* is in the ledger, and the fields whose fetch answered were still updated.
C13_RequestFailureDegradesField ==
    (/\ pc = "loop" /\ idx > 1 /\ (idx - 1) \in llm_called
     /\ io_errors = 0
     /\ SomeRequestFailed(lastResp)) =>
        /\ outcome[idx - 1] = "done"
        /\ name_at(idx - 1) \in processed_companies
        /\ lastResp.location = Returned(LLMAddr) =>
               firmographics_data[idx - 1].data.hq_address = LLMAddr

\* C17: when the network-profile client fails to initialize, main() goes on:
\* the source is empty for the run, the snapshot is written with one record
\* per knowledge-graph payload, built from that payload alone, and at the
\* end of the run every record has been through the enrichment loop.
C17_RunsWithoutNetworkProfile ==
    li_init = "failed" =>
        /\ pc # "aborted"
        /\ linkedin_data = << >>
        /\ firmographics_output.exists
        /\ Len(firmographics_output.content) = Len(diffbot_data)
        /\ \A i \in DOMAIN diffbot_data :
               firmographics[i] = _extract_from_diffbot_only(diffbot_data[i],
                                      Uri(input_companies[i]))
        /\ pc = "done" => \A i \in DOMAIN outcome : outcome[i] # "pending"

C17_EnrichedWithoutNetworkProfile ==
    /\ li_init = "failed"
    /\ pc = "done"
    /\ Len(input_companies) = 2
    /\ \A i \in DOMAIN outcome : outcome[i] = "done"
    /\ firmographics_output.content[1].data.employees.total = 120
    /\ firmographics_output.content[2].entityName = "B"

---------------------------------------------------------------------------
\* SpecReconcile: the source stages of main() and extract_firmographics for
\* an input file with the two companies A and B

ReconcileCsv == <<CsvRow("A"), CsvRow("B")>>

\* get_company_details returning an error result
LiError(name) ==
    [company_id |-> name,
     error |-> [message |-> "request failed", type |-> "Exception"]]

\* the details of a profile that gives an employee count
LiDetailsWithCount(name) ==
    [LiDetails(name) EXCEPT !.structured_data.total_employees = 50]

\* the details of a profile that gives no employee count but headquarters
\* and a revenue
LiDetailsWithHq(name) ==
    [LiDetails(name) EXCEPT !.structured_data =
        [name |-> name, total_employees |-> 0,
         hq_location |-> [country |-> "DE", city |-> "Berlin"],
         revenue |-> [amount |-> 500, currency |-> "EUR"]]]

\* What get_company_details returns for one company; None is written {}
\* (process_company_list drops a falsy result)
LiResults(name) ==
    {EmptyDict, LiDetails(name), LiDetailsWithCount(name), LiDetailsWithHq(name),
     LiError(name)}

\* s without its falsy entries, as process_company_list collects them
Collected(s) == SelectSeq(s, DictTruthy)

\* competitor lists of the knowledge-graph entity
Competitors(n) ==
    [i \in 1..n |-> [name |-> "c" \o ToString(i), homepage |-> "h" \o ToString(i),
                     summary |-> ""]]


\* get_company_data returning an error result
DiffbotError(name) == [company_url |-> Url(name), error |-> "Max retries exceeded"]

PayloadOf(name, results) ==
    [data |-> results, metadata |-> [company_url |-> Url(name), attempt |-> 1]]

\* What get_company_data returns for one company: an error result, a payload
\* with no result, or a payload with one or two results.  The employee
\* counts the entities give: none; 200 in the industry classification; 52 as
\* the entity's own count; only a range up to 80; a count of 0 in the
\* industry classification with a range up to 1000; a range up to 90 for an
\* entity that also goes by the name "A B", which both company names match.
DiffbotResults(name) ==
    {DiffbotError(name),
     PayloadOf(name, << >>),
     RunPayload(name),
     PayloadOf(name, <<[entity |-> [name |-> name, allNames |-> <<name>>,
                                   homepageUri |-> Url(name),
                                   naicsClassification |->
                                       <<[name |-> "Software"], [nbEmployees |-> 200]>>,
                                   location |->
                                       [country |-> [name |-> "US"],
                                        city |-> [name |-> "NY"],
                                        region |-> [name |-> "NY"],
                                        postalCode |-> "10001",
                                        address |-> "1 Main St"],
                                   revenue |-> [value |-> 100, currency |-> "USD"],
                                   competitors |-> Competitors(10)]]>>),
     PayloadOf(name, <<[entity |-> [name |-> name, allNames |-> <<name>>,
                                   homepageUri |-> Url(name),
                                   nbEmployees |-> 52,
                                   location |-> [country |-> [name |-> "US"],
                                                 city |-> [name |-> "NY"]]]]>>),
     PayloadOf(name, <<[entity |-> [name |-> name, allNames |-> <<name>>,
                                   homepageUri |-> Url(name),
                                   employeesRange |-> [min |-> 10, max |-> 80]]]>>),
     PayloadOf(name, <<[entity |-> [name |-> name, allNames |-> <<name>>,
                                   homepageUri |-> Url(name),
                                   naicsClassification |-> <<[nbEmployees |-> 0]>>,
                                   employeesRange |-> [min |-> 500, max |-> 1000],
                                   competitors |-> Competitors(6)]],
                       [entity |-> [name |-> name,
                                   competitors |-> Competitors(6)]]>>),
     PayloadOf(name, <<[entity |-> [name |-> name, allNames |-> <<name, "A B">>,
                                   homepageUri |-> Url(name),
                                   employeesRange |-> [min |-> 10, max |-> 90]]]>>)}

\* How many inputs other than 1 and 2 the operator enters in one run
MaxBadInputs == 1

InitReconcile ==
    /\ rec_pc = "linkedin"
    /\ li_init = "untried"
    /\ linkedin_data = << >>
    /\ diffbot_data = << >>
    /\ firmographics = << >>
    /\ human_validation \in BOOLEAN
    /\ pending_prompt = EmptyDict
    /\ answered_prompts = << >>
    /\ bad_inputs = 0
    /\ EnrichIdle
    /\ LimiterIdle
    /\ RunIdle
    /\ FetchIdle

\* main.py lines 223-239: the network-profile stage; the client fails to
\* initialize, or it collects what it gets for each row
LinkedInStage ==
    /\ rec_pc = "linkedin"
    /\ \/ /\ li_init' = "failed"
          /\ linkedin_data' = << >>
       \/ /\ li_init' = "ok"
          /\ \E a \in LiResults("A"), b \in LiResults("B") :
                linkedin_data' = Collected(<<a, b>>)
    /\ rec_pc' = "diffbot"
    /\ UNCHANGED <<diffbot_data, firmographics, human_validation, pending_prompt,
                   answered_prompts, bad_inputs, enrichVars, limiterVars, runVars,
                   fetchVars>>

\* main.py lines 241-249: the knowledge-graph stage
DiffbotStage ==
    /\ rec_pc = "diffbot"
    /\ \E a \in DiffbotResults("A"), b \in DiffbotResults("B") :
          diffbot_data' = <<a, b>>
    /\ rec_pc' = "extract"
    /\ UNCHANGED <<li_init, linkedin_data, firmographics, human_validation,
                   pending_prompt, answered_prompts, bad_inputs, enrichVars,
                   limiterVars, runVars, fetchVars>>

\* extract_firmographics has come to an input() or to its end
Suspend(out) ==
    IF out.pending
    THEN /\ rec_pc' = "prompt"
         /\ pending_prompt' = out.prompt
         /\ UNCHANGED firmographics
    ELSE /\ rec_pc' = "written"
         /\ pending_prompt' = EmptyDict
         /\ firmographics' = out.records

\* extract_firmographics running with the accepted inputs so far until it
\* waits at input() or returns
RunExtraction(answered) ==
    Suspend(extract_firmographics(ReconcileCsv, linkedin_data, diffbot_data,
                                  human_validation,
                                  [i \in DOMAIN answered |-> answered[i].choice]))

\* main.py lines 254-262
ExtractFirmographics ==
    /\ rec_pc = "extract"
    /\ RunExtraction(<< >>)
    /\ UNCHANGED <<li_init, linkedin_data, diffbot_data, human_validation,
                   answered_prompts, bad_inputs, enrichVars, limiterVars,
                   runVars, fetchVars>>

\* firmographics_analyzer.py lines 22-25: one input() of the while loop of
\* get_user_choice; any input but 1 and 2 is asked again
OperatorInput ==
    /\ rec_pc = "prompt"
    /\ \E choice \in {"1", "2", "3"} :
          IF choice \in {"1", "2"}
          THEN /\ answered_prompts' =
                      Append(answered_prompts,
                             [prompt |-> pending_prompt, choice |-> choice])
               /\ RunExtraction(answered_prompts')
               /\ UNCHANGED bad_inputs
          ELSE /\ bad_inputs < MaxBadInputs
               /\ bad_inputs' = bad_inputs + 1
               /\ UNCHANGED <<rec_pc, pending_prompt, answered_prompts, firmographics>>
    /\ UNCHANGED <<li_init, linkedin_data, diffbot_data, human_validation,
                   enrichVars, limiterVars, runVars, fetchVars>>

NextReconcile == LinkedInStage \/ DiffbotStage \/ ExtractFirmographics \/ OperatorInput

SpecReconcile == InitReconcile /\ [][NextReconcile]_vars

\* The network-profile source returned data for the company
HasProfileData(name) ==
    \E i \in DOMAIN linkedin_data :
        /\ "structured_data" \in DOMAIN linkedin_data[i]
        /\ linkedin_data[i].structured_data.name = name

\* The knowledge-graph payloads with a result for the company
GraphData(name) ==
    {p \in ElementsOf(diffbot_data) :
        /\ "data" \in DOMAIN p
        /\ p.data # << >>
        /\ p.metadata.company_url = Url(name)}

\* C14: after reconciliation every company for which a source returned data
\* has exactly one record, and a company with knowledge-graph data and no
\* network-profile data has the record _extract_from_diffbot_only builds
\* from its payload.  (Stated for runs in which the network-profile client
\* returned no error result.)
C14_OneRecordPerCompanyWithData ==
    (/\ rec_pc = "written"
     /\ \A i \in DOMAIN linkedin_data : "error" \notin DOMAIN linkedin_data[i]) =>
        \A name \in {"A", "B"} :
            /\ (HasProfileData(name) \/ GraphData(name) # {}) =>
                   Cardinality({i \in DOMAIN firmographics :
                                   firmographics[i].entityName = name}) = 1
            /\ (~HasProfileData(name) /\ GraphData(name) # {}) =>
                   \E i \in DOMAIN firmographics, p \in GraphData(name) :
                       firmographics[i] = _extract_from_diffbot_only(p, Uri(name))

\* every competitor entry of the payload's results, in source order
RECURSIVE AllCompetitors(_)
AllCompetitors(results) ==
    IF results = << >> THEN << >>
    ELSE LET listed == Get(Get(Head(results), "entity", EmptyDict), "competitors", << >>)
         IN  [i \in DOMAIN listed |-> SimilarEntry(listed[i])]
             \o AllCompetitors(Tail(results))

\* C15: similar_companies of every record has at most 10 entries, and they
\* are the first competitors of a payload in source order.
C15_SimilarCompaniesCapped ==
    \A i \in DOMAIN firmographics :
        LET similar == firmographics[i].data.similar_companies
        IN  /\ Len(similar) <= 10
            /\ similar # << >> =>
                   \E p \in ElementsOf(diffbot_data) :
                       "data" \in DOMAIN p /\ IsPrefix(similar, AllCompetitors(p.data))

\* C16: hq_address of every record is empty or has all of country, city,
\* state, postal_code and full_address populated.
C16_AddressAllOrNothing ==
    \A i \in DOMAIN firmographics :
        LET hq_address == firmographics[i].data.hq_address
        IN  \/ hq_address = EmptyDict
            \/ \A k \in {"country", "city", "state", "postal_code", "full_address"} :
                   k \in DOMAIN hq_address /\ hq_address[k] # ""

---------------------------------------------------------------------------
\* Properties of the merged fields (SpecReconcile)

\* The network-profile documents of the company
ProfileDocs(name) ==
    {d \in ElementsOf(linkedin_data) :
        "structured_data" \in DOMAIN d /\ d.structured_data.name = name}

\* The records of the company
RecordsOf(name) ==
    {r \in ElementsOf(firmographics) : r.entityName = name}

\* The knowledge-graph payload reconciliation pairs with the company, {} if
\* none
MatchedPayload(name) ==
    _find_matching_diffbot_data(Url(name), name, Uri(name), diffbot_data)

\* The prompts about one field of the company that the operator answered
AnsweredAbout(name, data_type) ==
    {i \in DOMAIN answered_prompts :
        /\ answered_prompts[i].prompt.company_name = name
        /\ answered_prompts[i].prompt.data_type = data_type}

\* C22: when exactly one of the two sources has a location (a revenue), the
\* company's record carries that source's value, with and without human
\* validation.
C22_SingleSourceValueCarried ==
    rec_pc = "written" =>
        \A name \in {"A", "B"} : \A d \in ProfileDocs(name) : \A r \in RecordsOf(name) :
            LET structured == d.structured_data
                profile_location == Get(structured, "hq_location", EmptyDict)
                profile_revenue == Get(structured, "revenue", EmptyDict)
                graph_location == _extract_hq_location(EmptyDict, MatchedPayload(name))
                graph_revenue == _extract_revenue(EmptyDict, MatchedPayload(name))
            IN  /\ (DictTruthy(profile_location) /\ ~DictTruthy(graph_location)) =>
                      /\ Get(r.data.hq_address, "country", "") = profile_location.country
                      /\ Get(r.data.hq_address, "city", "") = profile_location.city
                /\ (~DictTruthy(profile_location) /\ DictTruthy(graph_location)) =>
                      r.data.hq_address = graph_location
                /\ (DictTruthy(profile_revenue) /\ ~DictTruthy(graph_revenue)) =>
                      Get(r.data.revenue, "amount", 0) = profile_revenue.amount
                /\ (~DictTruthy(profile_revenue) /\ DictTruthy(graph_revenue)) =>
                      r.data.revenue = graph_revenue

\* C23: a record whose employee total the operator was not asked about has
\* the network-profile count when that is non-zero, and otherwise the value
\* extracted from the knowledge-graph payload.
C23_EmployeesProfileFirst ==
    rec_pc = "written" =>
        \A name \in {"A", "B"} : \A d \in ProfileDocs(name) : \A r \in RecordsOf(name) :
            AnsweredAbout(name, "employee count") = {} =>
                LET li_count == Get(d.structured_data, "total_employees", 0)
                IN  r.data.employees.total =
                        IF li_count # 0 THEN li_count
                        ELSE _extract_total_employees(EmptyDict, MatchedPayload(name))

C23_BothBranchesMerged ==
    /\ rec_pc = "written"
    /\ human_validation
    /\ answered_prompts = << >>
    /\ \E d \in ProfileDocs("A") : d.structured_data.total_employees = 50
    /\ _extract_total_employees(EmptyDict, MatchedPayload("A")) = 52
    /\ \E r \in RecordsOf("A") : r.data.employees.total = 50
    /\ \E d \in ProfileDocs("B") : d.structured_data.total_employees = 0
    /\ \E r \in RecordsOf("B") : r.data.employees.total = 200

\* The total the fallback order of the claim gives
ClaimedTotal(li_count, entity) ==
    LET naics == FirstNaicsCount(Get(entity, "naicsClassification", << >>))
        range_max == Get(Get(entity, "employeesRange", EmptyDict), "max", 0)
    IN  IF li_count # 0 THEN li_count
        ELSE IF naics.found /\ naics.value # 0 THEN naics.value
        ELSE range_max

\* C28: the employee total of a record is the network-profile count if
\* non-zero; else the industry-classification count of the knowledge-graph
\* entity; else, when that is absent or zero, the entity's employee-range
\* maximum; else 0.  (Stated for entities that carry no other count.)
C28_EmployeeFallbackOrder ==
    rec_pc = "written" =>
        \A name \in {"A", "B"} : \A d \in ProfileDocs(name) : \A r \in RecordsOf(name) :
            LET entity == first_entity(MatchedPayload(name))
            IN  (/\ AnsweredAbout(name, "employee count") = {}
                 /\ "nbEmployees" \notin DOMAIN entity
                 /\ "nbEmployeesMax" \notin DOMAIN entity) =>
                    r.data.employees.total =
                        ClaimedTotal(Get(d.structured_data, "total_employees", 0), entity)

\* The two sources both give a location of the company and the locations
\* differ in country, city or state
LocationConflict(name) ==
    \E d \in ProfileDocs(name) :
        LET profile_location == Get(d.structured_data, "hq_location", EmptyDict)
            graph_location == _extract_hq_location(EmptyDict, MatchedPayload(name))
        IN  /\ DictTruthy(profile_location)
            /\ DictTruthy(graph_location)
            /\ \E f \in {"country", "city", "state"} :
                  Get(profile_location, f, "") # Get(graph_location, f, "")

\* The two sources both give a revenue of the company and the amounts differ
\* by more than 10% of the larger
RevenueConflict(name) ==
    \E d \in ProfileDocs(name) :
        LET profile_revenue == Get(d.structured_data, "revenue", EmptyDict)
            graph_revenue == _extract_revenue(EmptyDict, MatchedPayload(name))
        IN  /\ DictTruthy(profile_revenue)
            /\ DictTruthy(graph_revenue)
            /\ 10 * Abs(profile_revenue.amount - graph_revenue.amount)
                  > Max(profile_revenue.amount, graph_revenue.amount)

\* C29: with human validation, reconciliation treats a company's location
\* as a conflict exactly when both sources give one and they differ in
\* country, city or state, and its revenue exactly when both give one and
\* the amounts differ by more than 10% of the larger.
C29_ConflictDetectedIffValuesDiffer ==
    (rec_pc = "written" /\ human_validation) =>
        \A name \in {"A", "B"} :
            (ProfileDocs(name) # {} /\ DictTruthy(MatchedPayload(name))) =>
                /\ AnsweredAbout(name, "location") # {} <=> LocationConflict(name)
                /\ AnsweredAbout(name, "revenue") # {} <=> RevenueConflict(name)

\* C30: with human validation, the record of a company whose location
\* (revenue) is in conflict is written only after the operator chose one of
\* the two candidates at a prompt, and holds the chosen candidate; a company
\* without such a conflict is not prompted about.
C30_ConflictPromptedAndChoiceKept ==
    (rec_pc = "written" /\ human_validation) =>
        \A name \in {"A", "B"} : \A r \in RecordsOf(name) :
            /\ LocationConflict(name) =>
                  \E i \in AnsweredAbout(name, "location") :
                      LET a == answered_prompts[i]
                      IN  r.data.hq_address =
                              IF a.choice = "1" THEN a.prompt.source1_data
                              ELSE a.prompt.source2_data
            /\ RevenueConflict(name) =>
                  \E i \in AnsweredAbout(name, "revenue") :
                      LET a == answered_prompts[i]
                      IN  r.data.revenue =
                              IF a.choice = "1" THEN a.prompt.source1_data
                              ELSE a.prompt.source2_data
            /\ ~LocationConflict(name) => AnsweredAbout(name, "location") = {}
            /\ ~RevenueConflict(name) => AnsweredAbout(name, "revenue") = {}

\* The positions in diffbot_data of the payloads that match the company of a
\* network-profile document on its name, its profile URI or its homepage
MatchingPositions(d) ==
    LET base_info == _extract_base_info(d, ReconcileCsv)
    IN  {i \in DOMAIN diffbot_data :
            MatchesDiffbot(diffbot_data[i], normalize_string(base_info.company_name),
                           normalize_linkedin_uri(base_info.linkedin_uri),
                           normalize_string(base_info.company_url))}

\* The payload the matching returns for the company of a network-profile
\* document
FoundFor(d) ==
    LET base_info == _extract_base_info(d, ReconcileCsv)
    IN  _find_matching_diffbot_data(base_info.company_url, base_info.company_name,
                                    base_info.linkedin_uri, diffbot_data)

\* C31: for every network-profile company the matching returns the payload
\* at the least position among those that match on name, profile URI or
\* homepage, and no payload when none matches; the record of the company is
\* built from that payload.
C31_FirstMatchInSourceOrder ==
    rec_pc = "written" =>
        \A name \in {"A", "B"} : \A d \in ProfileDocs(name) :
            /\ MatchingPositions(d) = {} => FoundFor(d) = EmptyDict
            /\ \A i \in MatchingPositions(d) :
                   (\A j \in MatchingPositions(d) : i <= j) =>
                       /\ FoundFor(d) = diffbot_data[i]
                       /\ \A r \in RecordsOf(name) :
                              (/\ AnsweredAbout(name, "employee count") = {}
                               /\ Get(d.structured_data, "total_employees", 0) = 0) =>
                                  r.data.employees.total =
                                      _extract_total_employees(EmptyDict, diffbot_data[i])

C31_TwoCandidatesMatchedFirstTaken ==
    /\ rec_pc = "written"
    /\ \E d \in ProfileDocs("B") :
          /\ MatchingPositions(d) = {1, 2}
          /\ Get(d.structured_data, "total_employees", 0) = 0
    /\ _extract_total_employees(EmptyDict, diffbot_data[1]) = 90
    /\ _extract_total_employees(EmptyDict, diffbot_data[2]) = 80
    /\ \E r \in RecordsOf("B") : r.data.employees.total = 90

\* C38: every record of the reconciled output has an entityName, also when a
\* source client returned an error result for the company.
C38_EveryRecordNamed ==
    rec_pc = "written" =>
        \A i \in DOMAIN firmographics : firmographics[i].entityName # ""

====
